---- MODULE Spec2Model ----
(***************************************************************************)
(* TextGO: recognition-and-dispatch core.                                  *)
(*                                                                         *)
(*   - rank-adjusted confidence rule   (src/src/lib/matcher.ts)            *)
(*   - recognizer chain, matchOne / matchAll (src/src/lib/matcher.ts)      *)
(*   - executor chain, execute         (src/src/lib/executor.ts)           *)
(*   - toolbar flow, setup / executeAction (toolbar page)                  *)
(*   - shortcut events, handleShortcutEvent (src/src/lib/shortcut.ts)      *)
(*   - shortcut registry, register / unregister (src/src/lib/shortcut.ts)  *)
(*     with bind / unbind / clear of src/src/lib/components/Binder.svelte  *)
(*     and the rename / delete of stored regular expressions and scripts   *)
(*                                                                         *)
(* Confidences are fixed-point numbers in hundredths (0.55 is 55).         *)
(* An optional value (T | null) is a sequence of length 0 or 1.            *)
(***************************************************************************)
EXTENDS Integers, Sequences, FiniteSets, TLC

VARIABLES
    \* ---- rank-adjusted confidence rule, applied to one detection list
    rkResults,          \* detection list handed to matchNaturalCase / matchProgrammingCase
    rkTarget,           \* target code
    rkNatural,          \* Some(result of matchNaturalCase), Null before the call
    rkProgramming,      \* Some(result of matchProgrammingCase), Null before the call
    \* ---- one text matched against one rule list
    mText,              \* the text
    mRules,             \* the rule list
    envNatural,         \* what francAll does on mText (Null until first called)
    envProgramming,     \* what runModel does on mText (Null until first called)
    envRegexp,          \* the stored custom regular expression "a" (Null until first read)
    envPredict,         \* what predict does for model "a" on mText (Null until first called)
    mPc,                \* "idle" | "loop" | "done" | "thrown": position in match()
    mMatchAll,          \* the matchAll parameter of the running match() call
    mIdx,               \* index of the next rule of the for loop
    matchedRules,       \* local matchedRules
    matchedActions,     \* local matchedActions
    naturalLangs,       \* local naturalLangs (shared lazy cache)
    programmingLangs,   \* local programmingLangs (shared lazy cache)
    mCalls,             \* classification calls made by the running call
    mEvaluated,         \* indices of the rules whose matcher chain ran in the running call
    retAll,             \* Some(result of matchAll(mText, mRules)) once it has returned
    retOne,             \* Some(result of matchOne(mText, mRules)) once it has returned
    \* ---- executor chain and toolbar window
    entries,            \* history store entries.current, newest first
    xLog,               \* backend commands and action work done so far, in order
    xSeq,               \* number of entries generated so far (the next entry id)
    xRule,              \* rule handed to a direct execute() call
    xSelection,         \* selected text
    xRet,               \* Some(result of the direct execute() call), Null before it
    xInvoked,           \* indices of the executors that call invoked, in order
    tbRules,            \* rules of the show-toolbar payload
    tbPc,               \* "hidden" | "setup" | "shown" | "clicked": toolbar window
    tbActions,          \* toolbar actions (id, label, rule)
    tbIdx,              \* index of the next action of the setup loop
    \* ---- shortcut registry, hotkey backend, custom catalogs
    shortcuts,          \* shortcuts.current: trigger -> Some(rule list), Null when absent
    bound,              \* triggers bound with the hotkey backend
    regexps,            \* ids of regexps.current
    malformed,          \* ids of the stored regexps whose pattern does not compile
    scripts,            \* ids of scripts.current
    nextId,             \* number of rule ids generated so far
    reg,                \* Some(the register() call suspended at a backend await)
    clr,                \* Some(the clear() call suspended at a backend await)
    faulty,             \* whether hotkey-backend commands can fail
    lastOp,             \* what the last handler step did and showed
    \* ---- one shortcut event handled by handleShortcutEvent
    dShortcut,          \* shortcuts.current[shortcut]: Some([mode, rules]), Null when absent
    dPc,                \* "idle" | "matching" | "done": position in handleShortcutEvent
    \* ---- settings
    historySize,        \* historySize.current
    \* ---- one prompt template rendered by renderPrompt
    tplPrompt,          \* prompt.prompt
    tplClipboard,       \* entry.clipboard
    tplSelection,       \* entry.selection
    tplResult,          \* Some(result of renderPrompt), Null before the call
    \* ---- popup window and its chat sessions
    popup,              \* the popup page: entry, streaming, autoScroll, llmClient,
                        \* the chat() calls made so far, and whether the window shows
    popEvents,          \* show-popup events emitted and not yet handled, oldest first
    popOp               \* the handler or stream step that ran last

rankVars  == <<rkResults, rkTarget, rkNatural, rkProgramming>>
matchVars == <<mText, mRules, envNatural, envProgramming, envRegexp, envPredict,
               mPc, mMatchAll, mIdx, matchedRules, matchedActions,
               naturalLangs, programmingLangs, mCalls, mEvaluated, retAll, retOne>>
execVars  == <<entries, xLog, xSeq, xRule, xSelection, xRet, xInvoked,
               tbRules, tbPc, tbActions, tbIdx>>
regVars   == <<shortcuts, bound, regexps, malformed, scripts, nextId, reg, clr,
               faulty, lastOp>>
dispVars  == <<dShortcut, dPc>>
setVars   == <<historySize>>
tplVars   == <<tplPrompt, tplClipboard, tplSelection, tplResult>>
chatVars  == <<popup, popEvents, popOp>>
vars == <<rankVars, matchVars, execVars, regVars, dispVars, setVars, tplVars, chatVars>>

\* the variables outside one part
notRank  == <<matchVars, execVars, regVars, dispVars, setVars, tplVars, chatVars>>
notMatch == <<rankVars, execVars, regVars, dispVars, setVars, tplVars, chatVars>>
notExec  == <<rankVars, matchVars, regVars, dispVars, setVars, tplVars, chatVars>>
notReg   == <<rankVars, matchVars, execVars, dispVars, setVars, tplVars, chatVars>>

Null == << >>
Some(x) == <<x>>
IsNull(o) == Len(o) = 0
Val(o) == o[1]

Range(s) == {s[i] : i \in 1..Len(s)}

----------------------------------------------------------------------------
(* Bounds *)

\* longest detection list
MaxDetections == 4
\* longest rule list
MaxRules == 3
\* most direct execute() calls on one rule
MaxCalls == 2
\* most rules in one show-toolbar payload
MaxToolbar == 2
\* most rule ids generated by bind()
MaxIds == 2
\* longest rule list of the shortcut of a shortcut event
MaxDispatch == 2
\* largest history size set
MaxHistory == 2

----------------------------------------------------------------------------
(* Rank-adjusted confidence rule *)

MIN_CONFIDENCE == 20
INITIAL_THRESHOLD == 50
RELATIVE_THRESHOLD == 15

\* results.findIndex(pred): zero-based index of the first entry with the code, -1 if none
FindIndex(results, code) ==
    IF \E i \in 1..Len(results) : results[i].code = code
    THEN (CHOOSE i \in 1..Len(results) :
             /\ results[i].code = code
             /\ \A j \in 1..(i - 1) : results[j].code # code) - 1
    ELSE -1

\* results[targetIndex + 1]?.confidence ?? 0
NextConfidence(results, targetIndex) ==
    IF targetIndex + 2 <= Len(results) THEN results[targetIndex + 2].conf ELSE 0

matchProgrammingCase(targetId, results) ==
    IF Len(results) = 0 THEN FALSE
    ELSE LET targetIndex == FindIndex(results, targetId) IN
         IF targetIndex = -1 THEN FALSE
         ELSE LET targetConfidence == results[targetIndex + 1].conf
                  threshold == INITIAL_THRESHOLD + 10 * targetIndex
              IN  IF targetConfidence > threshold THEN TRUE
                  ELSE IF targetConfidence <= MIN_CONFIDENCE \/ targetIndex >= 3 THEN FALSE
                  ELSE targetConfidence - NextConfidence(results, targetIndex) > RELATIVE_THRESHOLD

\* matchNaturalCase with the margin test made inclusive
matchNaturalCase_Inclusive(targetCode, results) ==
    IF Len(results) = 0 THEN FALSE
    ELSE LET targetIndex == FindIndex(results, targetCode) IN
         IF targetIndex = -1 THEN FALSE
         ELSE LET targetConfidence == results[targetIndex + 1].conf
                  threshold == INITIAL_THRESHOLD + 10 * targetIndex
              IN  IF targetConfidence > threshold THEN TRUE
                  ELSE IF targetConfidence <= MIN_CONFIDENCE \/ targetIndex >= 3 THEN FALSE
                  ELSE targetConfidence - NextConfidence(results, targetIndex) >= RELATIVE_THRESHOLD

matchNaturalCase(targetCode, results) ==
    IF Len(results) = 0 THEN FALSE
    ELSE LET targetIndex == FindIndex(results, targetCode) IN
         IF targetIndex = -1 THEN FALSE
         ELSE LET targetConfidence == results[targetIndex + 1].conf
                  threshold == INITIAL_THRESHOLD + 10 * targetIndex
              IN  IF targetConfidence > threshold THEN TRUE
                  ELSE IF targetConfidence <= MIN_CONFIDENCE \/ targetIndex >= 3 THEN FALSE
                  ELSE targetConfidence - NextConfidence(results, targetIndex) > RELATIVE_THRESHOLD

\* codes and confidences of the detection lists tried
RankCodes == {"A", "B", "C", "D"}
RankConfidences == {10, 20, 30, 45, 50, 55, 60, 70, 90}
RankEntries == [code : RankCodes, conf : RankConfidences]

\* rank-sorted lists (confidence never increases) of a given length without a repeated code
RECURSIVE RankedListsOfLen(_)
RankedListsOfLen(n) ==
    IF n = 0 THEN {<< >>}
    ELSE UNION {{Append(l, e) : e \in {x \in RankEntries :
                                        /\ \A i \in 1..(n - 1) : x.code # l[i].code
                                        /\ n > 1 => l[n - 1].conf >= x.conf}} :
                l \in RankedListsOfLen(n - 1)}

RankedLists(max) == UNION {RankedListsOfLen(n) : n \in 0..max}

InitRank ==
    /\ rkResults \in RankedLists(MaxDetections)
    /\ rkTarget \in RankCodes
    /\ rkNatural = Null
    /\ rkProgramming = Null

CallMatchNaturalCase ==
    /\ IsNull(rkNatural)
    /\ rkNatural' = Some(matchNaturalCase(rkTarget, rkResults))
    /\ UNCHANGED <<rkResults, rkTarget, rkProgramming, notRank>>

CallMatchProgrammingCase ==
    /\ IsNull(rkProgramming)
    /\ rkProgramming' = Some(matchProgrammingCase(rkTarget, rkResults))
    /\ UNCHANGED <<rkResults, rkTarget, rkNatural, notRank>>

----------------------------------------------------------------------------
(* Case catalog, as far as the rule lists tried use it *)

MODEL_MARK == "model-"
REGEXP_MARK == "regexp-"

Texts == {"", "https://a.io", "12345"}

\* [...GENERAL_CASES, ...TEXT_CASES] restricted to the cases used
BuiltinCases == {"url", "numbers"}
NaturalCases == {"eng", "jpn"}
ProgrammingCases == {"py"}

findBuiltinCase(case) == IF case \in BuiltinCases THEN Some(case) ELSE Null
findNaturalCase(case) == IF case \in NaturalCases THEN Some(case) ELSE Null
findProgrammingCase(case) == IF case \in ProgrammingCases THEN Some(case) ELSE Null

\* builtin.pattern.test(text) for the anchored patterns of 'url' and 'numbers'
PatternTest(case, text) ==
    \/ case = "url" /\ text = "https://a.io"
    \/ case = "numbers" /\ text = "12345"

\* (case id, action id) of the rules the rule lists tried are made of
RuleCases == {"", "url", "numbers", "eng", "jpn", "py", "regexp-a", "model-a"}
RuleActions == {"copy", "trim"}
RulePairs ==
    { <<"", "copy">>, <<"url", "copy">>, <<"numbers", "trim">>, <<"eng", "copy">>,
      <<"jpn", "trim">>, <<"py", "trim">>, <<"regexp-a", "copy">>, <<"model-a", "trim">> }

\* Identifiers are atomic strings; mark + name is read off this table of the
\* identifiers in use: <<mark, name, mark + name>>
MarkedIds ==
    { <<"regexp-", "a", "regexp-a">>, <<"regexp-", "b", "regexp-b">>,
      <<"model-", "a", "model-a">>, <<"model-", "b", "model-b">>,
      <<"script-", "x", "script-x">>, <<"script-", "y", "script-y">>,
      <<"prompt-", "p", "prompt-p">>, <<"searcher-", "s", "searcher-s">> }
\* mark + name
Concat(mark, name) == (CHOOSE t \in MarkedIds : t[1] = mark /\ t[2] = name)[3]
\* id.startsWith(mark)
StartsWith(id, mark) == \E t \in MarkedIds : t[1] = mark /\ t[3] = id
\* id.substring(mark.length), for an id that starts with mark
Substring(id, mark) == (CHOOSE t \in MarkedIds : t[1] = mark /\ t[3] = id)[2]

----------------------------------------------------------------------------
(* External collaborators of the recognizers: what each does on mText *)

Detection(code, conf) == [code |-> code, conf |-> conf]

\* francAll(text, FRANC_OPTIONS): throws, or returns a ranked list
NaturalOutcomes ==
    { [throws |-> TRUE,  list |-> << >>],
      [throws |-> FALSE, list |-> <<Detection("und", 100)>>],
      [throws |-> FALSE, list |-> <<Detection("eng", 55), Detection("cmn", 30), Detection("jpn", 10)>>] }

\* MODEL_OPERATIONS.runModel(text): throws, or returns a ranked list
ProgrammingOutcomes ==
    { [throws |-> TRUE,  list |-> << >>],
      [throws |-> FALSE, list |-> <<Detection("py", 70), Detection("js", 20)>>],
      [throws |-> FALSE, list |-> <<Detection("js", 90), Detection("py", 5)>>] }

\* regexps.current.find(r => r.id === "a") and what new RegExp(pattern, flags).test(text) does:
\* no such entry, an empty pattern, a pattern that does not compile, a hit, a miss
RegexpOutcomes == {"missing", "empty", "malformed", "hit", "miss"}

\* models.current.find(m => m.id === "a") and what predict(model.id, text) does;
\* predict: -2 throws, -1 returns null, otherwise the confidence
ModelThreshold == 50
PredictOutcomes ==
    { [model |-> "missing",   predict |-> -1],
      [model |-> "untrained", predict |-> -1],
      [model |-> "trained",   predict |-> -2],
      [model |-> "trained",   predict |-> -1],
      [model |-> "trained",   predict |-> 49],
      [model |-> "trained",   predict |-> 50] }

----------------------------------------------------------------------------
(* Recognizer chain *)

\* { ...context.rule, caseLabel: label }
WithLabel(rule, label) == [rule EXCEPT !.caseLabel = label]

\* each matcher maps a context to the context after it ran, with ctx.matched set
\* when it matched, ctx.calls extended by the collaborator calls it made, and
\* ctx.thrown set when an exception leaves it

\* the catch block of a matcher: the error is logged and the matcher returns null
catch_Rethrow(ctx) == [ctx EXCEPT !.thrown = TRUE]
catch(ctx) == ctx

\* !context.text: the text is the empty string
NoText_Never(text) == FALSE
NoText(text) == text = ""

skipMatcher_Never(ctx) == ctx
skipMatcher(ctx) ==
    IF ctx.rule.case = ""
    THEN [ctx EXCEPT !.matched = Some(ctx.rule)]
    ELSE ctx

builtinMatcher(ctx) ==
    IF NoText(ctx.text) THEN ctx
    ELSE LET builtin == findBuiltinCase(ctx.rule.case) IN
         IF ~IsNull(builtin) /\ PatternTest(Val(builtin), ctx.text)
         THEN [ctx EXCEPT !.matched = Some(WithLabel(ctx.rule, Val(builtin)))]
         ELSE ctx

naturalMatcher(ctx) ==
    IF NoText(ctx.text) THEN ctx
    ELSE LET natural == findNaturalCase(ctx.rule.case) IN
         IF IsNull(natural) THEN ctx
         ELSE IF IsNull(ctx.naturalLangs)
              THEN \* lazy load natural language detection results
                   LET called == [ctx EXCEPT !.calls = Append(@, "francAll")] IN
                   IF ctx.oNatural.throws THEN catch(called)
                   ELSE LET loaded == [called EXCEPT !.naturalLangs = Some(ctx.oNatural.list)] IN
                        IF matchNaturalCase(ctx.rule.case, ctx.oNatural.list)
                        THEN [loaded EXCEPT !.matched = Some(WithLabel(ctx.rule, Val(natural)))]
                        ELSE loaded
              ELSE IF matchNaturalCase(ctx.rule.case, Val(ctx.naturalLangs))
                   THEN [ctx EXCEPT !.matched = Some(WithLabel(ctx.rule, Val(natural)))]
                   ELSE ctx

programmingMatcher(ctx) ==
    IF NoText(ctx.text) THEN ctx
    ELSE LET programming == findProgrammingCase(ctx.rule.case) IN
         IF IsNull(programming) THEN ctx
         ELSE IF IsNull(ctx.programmingLangs)
              THEN \* lazy load programming language detection results
                   LET called == [ctx EXCEPT !.calls = Append(@, "runModel")] IN
                   IF ctx.oProgramming.throws THEN catch(called)
                   ELSE LET loaded == [called EXCEPT !.programmingLangs = Some(ctx.oProgramming.list)] IN
                        IF matchProgrammingCase(ctx.rule.case, ctx.oProgramming.list)
                        THEN [loaded EXCEPT !.matched = Some(WithLabel(ctx.rule, Val(programming)))]
                        ELSE loaded
              ELSE IF matchProgrammingCase(ctx.rule.case, Val(ctx.programmingLangs))
                   THEN [ctx EXCEPT !.matched = Some(WithLabel(ctx.rule, Val(programming)))]
                   ELSE ctx

customRegexMatcher(ctx) ==
    IF NoText(ctx.text) \/ ~StartsWith(ctx.rule.case, REGEXP_MARK) THEN ctx
    ELSE LET regexpId == Substring(ctx.rule.case, REGEXP_MARK)
             found == regexpId = "a" /\ ctx.oRegexp \notin {"missing", "empty"}
         IN  IF ~found THEN ctx
             ELSE LET called == [ctx EXCEPT !.calls = Append(@, "RegExp")] IN
                  IF ctx.oRegexp = "malformed" THEN catch(called)
                  ELSE IF ctx.oRegexp = "hit"
                  THEN [called EXCEPT !.matched = Some(WithLabel(ctx.rule, regexpId))]
                  ELSE called

\* confidence !== null && confidence >= model.threshold
matchModelCase_Strict(model, confidence) ==
    IF model # "trained" THEN FALSE
    ELSE confidence # -1 /\ confidence > ModelThreshold
matchModelCase(model, confidence) ==
    IF model # "trained" THEN FALSE
    ELSE confidence # -1 /\ confidence >= ModelThreshold

customModelMatcher(ctx) ==
    IF NoText(ctx.text) \/ ~StartsWith(ctx.rule.case, MODEL_MARK) THEN ctx
    ELSE LET modelId == Substring(ctx.rule.case, MODEL_MARK)
             found == modelId = "a" /\ ctx.oPredict.model # "missing"
         IN  IF ~found THEN ctx
             ELSE IF ctx.oPredict.model # "trained" THEN ctx
             ELSE LET called == [ctx EXCEPT !.calls = Append(@, "predict")] IN
                  IF ctx.oPredict.predict = -2 THEN catch(called)
                  ELSE IF matchModelCase(ctx.oPredict.model, ctx.oPredict.predict)
                       THEN [called EXCEPT !.matched = Some(WithLabel(ctx.rule, modelId))]
                       ELSE called

\* MATCHERS[k](ctx)
Matcher(k, ctx) ==
    CASE k = 1 -> skipMatcher(ctx)
      [] k = 2 -> builtinMatcher(ctx)
      [] k = 3 -> naturalMatcher(ctx)
      [] k = 4 -> programmingMatcher(ctx)
      [] k = 5 -> customRegexMatcher(ctx)
      [] k = 6 -> customModelMatcher(ctx)

NumMatchers == 6

\* for (const matcher of MATCHERS) { matched = await matcher(context); if (matched) break; }
RECURSIVE RunMatchers(_, _)
RunMatchers(k, ctx) ==
    IF k > NumMatchers THEN ctx
    ELSE LET after == Matcher(k, ctx) IN
         IF ~IsNull(after.matched) \/ after.thrown THEN after
         ELSE RunMatchers(k + 1, after)

\* does the recognizer chain succeed on the rule (with an empty cache)
ChainSucceeds(text, rule, oN, oP, oR, oM) ==
    ~IsNull(RunMatchers(1, [text |-> text, rule |-> rule, naturalLangs |-> Null,
                            programmingLangs |-> Null, matched |-> Null, calls |-> << >>,
                            thrown |-> FALSE,
                            oNatural |-> oN, oProgramming |-> oP,
                            oRegexp |-> oR, oPredict |-> oM]).matched)

----------------------------------------------------------------------------
(* Match orchestrator: match(text, rules, matchAll) *)

Rule(id, case, action) == [id |-> id, case |-> case, action |-> action, caseLabel |-> ""]

RuleLists ==
    {[i \in 1..Len(p) |-> Rule(i, p[i][1], p[i][2])] :
        p \in UNION {[1..n -> RulePairs] : n \in 0..MaxRules}}

NoCalls == [francAll |-> 0, runModel |-> 0, RegExp |-> 0, predict |-> 0]

\* number of occurrences of a call in the calls a chain made
Count(calls, name) == Cardinality({i \in 1..Len(calls) : calls[i] = name})

AddCalls(counts, calls) ==
    [name \in DOMAIN counts |-> counts[name] + Count(calls, name)]

\* the outcomes a collaborator may still show: the one it showed before on this text,
\* any outcome when it is asked for the first time
Outcomes(env, all, asked) ==
    IF ~IsNull(env) THEN {Val(env)}
    ELSE IF asked THEN all
    ELSE {CHOOSE o \in all : TRUE}

InitMatch ==
    /\ mText \in Texts
    /\ mRules \in RuleLists
    /\ envNatural = Null
    /\ envProgramming = Null
    /\ envRegexp = Null
    /\ envPredict = Null
    /\ mPc = "idle"
    /\ mMatchAll = FALSE
    /\ mIdx = 1
    /\ matchedRules = << >>
    /\ matchedActions = {}
    /\ naturalLangs = Null
    /\ programmingLangs = Null
    /\ mCalls = NoCalls
    /\ mEvaluated = {}
    /\ retAll = Null
    /\ retOne = Null

\* matchAll(text, rules) is called and, once it has returned, matchOne(text, rules):
\* the locals of match() are set up
CallMatch(all) ==
    /\ IF all THEN mPc = "idle" ELSE mPc = "done" /\ IsNull(retOne)
    /\ mPc' = "loop"
    /\ mMatchAll' = all
    /\ mIdx' = 1
    /\ matchedRules' = << >>
    /\ matchedActions' = {}
    /\ naturalLangs' = Null
    /\ programmingLangs' = Null
    /\ mCalls' = NoCalls
    /\ mEvaluated' = {}
    /\ UNCHANGED <<mText, mRules, envNatural, envProgramming, envRegexp, envPredict,
                   retAll, retOne, notMatch>>

CallMatchAll == CallMatch(TRUE)
CallMatchOne == CallMatch(FALSE)

\* matchedActions.has(rule.action)
ActionMatched_Never(actions, rule) == FALSE
ActionMatched(actions, rule) == rule.action \in actions

\* matchedActions after the chain ran on a rule: the action is added only when the
\* rule matched
NoteAction_Tried(actions, rule, matched) == actions \cup {rule.action}
NoteAction(actions, rule, matched) ==
    IF ~IsNull(matched) THEN actions \cup {Val(matched).action} ELSE actions

\* if (matchAll) { collect } else { return matched }
ReturnsAtOnce_Never(all) == FALSE
ReturnsAtOnce(all) == ~all

\* one iteration of the for loop over a rule whose action has already been matched
MatchSkipRule ==
    /\ mPc = "loop"
    /\ mIdx <= Len(mRules)
    /\ ActionMatched(matchedActions, mRules[mIdx])
    /\ mIdx' = mIdx + 1
    /\ UNCHANGED <<mText, mRules, envNatural, envProgramming, envRegexp, envPredict,
                   mPc, mMatchAll, matchedRules, matchedActions, naturalLangs,
                   programmingLangs, mCalls, mEvaluated, retAll, retOne, notMatch>>

\* one iteration of the for loop that runs the matcher chain on the rule
MatchRule ==
    /\ mPc = "loop"
    /\ mIdx <= Len(mRules)
    /\ ~ActionMatched(matchedActions, mRules[mIdx])
    /\ LET rule == mRules[mIdx]
           live == mText # ""
       IN
       \E oN \in Outcomes(envNatural, NaturalOutcomes, live /\ rule.case \in NaturalCases),
          oP \in Outcomes(envProgramming, ProgrammingOutcomes, live /\ rule.case \in ProgrammingCases),
          oR \in Outcomes(envRegexp, RegexpOutcomes, live /\ StartsWith(rule.case, REGEXP_MARK)),
          oM \in Outcomes(envPredict, PredictOutcomes, live /\ StartsWith(rule.case, MODEL_MARK)) :
         LET context == [text |-> mText, rule |-> rule,
                         naturalLangs |-> naturalLangs, programmingLangs |-> programmingLangs,
                         matched |-> Null, calls |-> << >>, thrown |-> FALSE,
                         oNatural |-> oN, oProgramming |-> oP, oRegexp |-> oR, oPredict |-> oM]
             after == RunMatchers(1, context)
             matched == after.matched
         IN
         /\ envNatural' = IF live /\ rule.case \in NaturalCases THEN Some(oN) ELSE envNatural
         /\ envProgramming' = IF live /\ rule.case \in ProgrammingCases THEN Some(oP) ELSE envProgramming
         /\ envRegexp' = IF live /\ StartsWith(rule.case, REGEXP_MARK) THEN Some(oR) ELSE envRegexp
         /\ envPredict' = IF live /\ StartsWith(rule.case, MODEL_MARK) THEN Some(oM) ELSE envPredict
         \* update shared context with lazy-loaded results
         /\ naturalLangs' = after.naturalLangs
         /\ programmingLangs' = after.programmingLangs
         /\ mCalls' = AddCalls(mCalls, after.calls)
         /\ mEvaluated' = mEvaluated \cup {mIdx}
         /\ IF after.thrown
            THEN \* the exception leaves match()
                 /\ mPc' = "thrown"
                 /\ UNCHANGED <<matchedRules, matchedActions, mIdx, retAll, retOne>>
            ELSE IF ~IsNull(matched)
            THEN IF ~ReturnsAtOnce(mMatchAll)
                 THEN /\ matchedRules' = Append(matchedRules, Val(matched))
                      /\ matchedActions' = NoteAction(matchedActions, rule, matched)
                      /\ mIdx' = mIdx + 1
                      /\ UNCHANGED <<mPc, retAll, retOne>>
                 ELSE \* return matched
                      /\ retOne' = Some(matched)
                      /\ mPc' = "done"
                      /\ UNCHANGED <<matchedRules, matchedActions, mIdx, retAll>>
            ELSE /\ mIdx' = mIdx + 1
                 /\ matchedActions' = NoteAction(matchedActions, rule, matched)
                 /\ UNCHANGED <<mPc, matchedRules, retAll, retOne>>
    /\ UNCHANGED <<mText, mRules, mMatchAll, notMatch>>

\* return matchAll ? matchedRules : null
MatchReturn ==
    /\ mPc = "loop"
    /\ mIdx > Len(mRules)
    /\ mPc' = "done"
    /\ IF mMatchAll
       THEN retAll' = Some(matchedRules) /\ UNCHANGED retOne
       ELSE retOne' = Some(Null) /\ UNCHANGED retAll
    /\ UNCHANGED <<mText, mRules, envNatural, envProgramming, envRegexp, envPredict,
                   mMatchAll, mIdx, matchedRules, matchedActions, naturalLangs,
                   programmingLangs, mCalls, mEvaluated, notMatch>>

----------------------------------------------------------------------------
(* Executor chain: execute(rule, selection) *)

SCRIPT_MARK == "script-"
PROMPT_MARK == "prompt-"
SEARCHER_MARK == "searcher-"

\* A text is a sequence of characters; the empty text is << >>.
\* stored scripts, prompts and searchers
Scripts == {"x"}
Prompts == {"p"}
Searchers == {"s"}
\* built-in actions tried: copy (no textual result) and trim
BuiltinActions == {"copy", "trim"}

\* the history size set where it is not varied
HistorySize == 2

\* what a run of the stored script produces: text, empty text, or an error
ScriptOutcomes ==
    { [text |-> <<"o">>, error |-> FALSE],
      [text |-> << >>, error |-> FALSE],
      [text |-> <<"E">>, error |-> TRUE] }

\* an executor returns a boolean or a string
Bool(b) == [isStr |-> FALSE, b |-> b, s |-> << >>]
Str(s) == [isStr |-> TRUE, b |-> FALSE, s |-> s]
Truthy(r) == IF r.isStr THEN Len(r.s) > 0 ELSE r.b

\* String.prototype.trim on texts over " " and letters
RECURSIVE TrimStart(_)
TrimStart(s) == IF Len(s) > 0 /\ Head(s) = " " THEN TrimStart(Tail(s)) ELSE s
RECURSIVE TrimEnd(_)
TrimEnd(s) ==
    IF Len(s) > 0 /\ s[Len(s)] = " " THEN TrimEnd(SubSeq(s, 1, Len(s) - 1)) ELSE s
Trim(s) == TrimEnd(TrimStart(s))

\* one item of xLog: a backend command, or the work of an action, done for a rule
Fx(op, rule, text) == [op |-> op, action |-> rule.action, text |-> text]

\* process() of the built-in actions
Process(rule, selection) ==
    IF rule.action = "copy"
    THEN [result |-> << >>,
          fx |-> IF Len(selection) > 0
                 THEN <<Fx("set_clipboard_text", rule, selection)>> ELSE << >>]
    ELSE [result |-> Trim(selection), fx |-> << >>]

\* A prompt template and the values put into it are sequences of tokens: a
\* placeholder is one token, and so is each replacement pattern of
\* String.prototype.replace, "$&" (the matched text) and "$$" (a dollar sign)
CLIPBOARD == "{{clipboard}}"
SELECTION == "{{selection}}"
DATETIME == "{{datetime}}"

\* new Date().toISOString()
Datetime == <<"d">>

\* the text a replacement string stands for when it replaces the placeholder
\* matched: GetSubstitution of String.prototype.replace
RECURSIVE GetSubstitution(_, _)
GetSubstitution(matched, replacement) ==
    IF replacement = << >> THEN << >>
    ELSE (CASE Head(replacement) = "$&" -> <<matched>>
            [] Head(replacement) = "$$" -> <<"$">>
            [] OTHER -> <<Head(replacement)>>)
         \o GetSubstitution(matched, Tail(replacement))

\* text.replace(/<placeholder>/g, replacement)
RECURSIVE Replace(_, _, _)
Replace(text, placeholder, replacement) ==
    IF text = << >> THEN << >>
    ELSE (IF Head(text) = placeholder
          THEN GetSubstitution(placeholder, replacement)
          ELSE <<Head(text)>>)
         \o Replace(Tail(text), placeholder, replacement)

\* renderPrompt(prompt, entry): the three replacements, one after the other, each
\* on the result of the one before
renderPrompt(prompt, entry) ==
    LET r1 == Replace(prompt, CLIPBOARD, entry.clipboard)
        r2 == Replace(r1, SELECTION, entry.selection)
    IN  Replace(r2, DATETIME, entry.datetime)

\* prompts.current.find((p) => p.id === promptId).prompt: the stored prompt "p"
\* has the template "p{{selection}}"
PromptOf(promptId) == <<"p", SELECTION>>

\* the searcher URL template "u{{selection}}"
SearcherUrl(entry) == <<"u">> \o Trim(entry.selection)

\* saveHistory(entry)
saveHistory_Unbounded(list, entry) == <<entry>> \o list
saveHistory(list, entry) ==
    LET l == <<entry>> \o list
    IN  IF Len(l) > historySize THEN SubSeq(l, 1, historySize) ELSE l

\* what one executor did: its return value, what it issued (a saveHistory call
\* included), and the entry as it left it
Done(result, fx, entry) == [result |-> result, fx |-> fx, entry |-> entry]

WithResult(entry, type, label, result) ==
    [entry EXCEPT !.actionType = type, !.actionLabel = label, !.result = result]

defaultExecutor(rule, entry) ==
    IF rule.action = ""
    THEN Done(Bool(TRUE), <<Fx("show_main_window", rule, << >>)>>, entry)
    ELSE Done(Bool(FALSE), << >>, entry)

\* the output step shared by the script and the built-in executor
Output(rule, text) ==
    IF rule.outputMode = "replace" THEN <<Fx("enter_text", rule, text)>>
    ELSE IF rule.outputMode = "popup" THEN <<Fx("show_popup", rule, text)>>
    ELSE << >>

\* if (rule.history) saveHistory(entry)
History_UnlessPreview(rule, text) ==
    IF rule.history /\ ~rule.preview /\ ~StartsWith(rule.action, PROMPT_MARK)
    THEN <<Fx("saveHistory", rule, text)>> ELSE << >>
History(rule, text) ==
    IF rule.history THEN <<Fx("saveHistory", rule, text)>> ELSE << >>

\* if (rule.preview) return <the result text>, of the script and the built-in executor
previewMode_Ignored(rule) == FALSE
previewMode(rule) == rule.preview

\* if (!result.error) { ... } of the script executor
resultError_Ignored(o) == FALSE
resultError(o) == o.error

scriptExecutor(rule, entry, o) ==
    IF ~StartsWith(rule.action, SCRIPT_MARK) THEN Done(Bool(FALSE), << >>, entry)
    ELSE LET scriptId == Substring(rule.action, SCRIPT_MARK)
             e == WithResult(entry, "script", scriptId, o.text)
             ran == <<Fx("executeScript", rule, o.text)>> \o History(rule, o.text)
         IN  IF scriptId \notin Scripts THEN Done(Bool(TRUE), << >>, entry)
             ELSE IF resultError(o) THEN Done(Bool(TRUE), ran, e)
             ELSE IF previewMode(rule) THEN Done(Str(o.text), ran, e)
             ELSE Done(Bool(TRUE), ran \o Output(rule, o.text), e)

promptExecutor(rule, entry) ==
    IF ~StartsWith(rule.action, PROMPT_MARK) THEN Done(Bool(FALSE), << >>, entry)
    ELSE LET promptId == Substring(rule.action, PROMPT_MARK)
             result == renderPrompt(PromptOf(promptId), entry)
             e == WithResult(entry, "prompt", promptId, result)
             ran == <<Fx("renderPrompt", rule, result)>> \o History(rule, result)
         IN  IF promptId \notin Prompts THEN Done(Bool(TRUE), << >>, entry)
             ELSE Done(Bool(TRUE), ran \o <<Fx("show_popup", rule, result)>>, e)

searcherExecutor(rule, entry) ==
    IF ~StartsWith(rule.action, SEARCHER_MARK) THEN Done(Bool(FALSE), << >>, entry)
    ELSE LET searcherId == Substring(rule.action, SEARCHER_MARK)
             result == SearcherUrl(entry)
             e == WithResult(entry, "searcher", searcherId, result)
         IN  IF searcherId \notin Searchers THEN Done(Bool(TRUE), << >>, entry)
             ELSE Done(Bool(TRUE),
                       History(rule, result) \o <<Fx("openUrl", rule, result)>>, e)

findBuiltinAction(action) == IF action \in BuiltinActions THEN Some(action) ELSE Null

builtinExecutor(rule, entry) ==
    IF IsNull(findBuiltinAction(rule.action)) THEN Done(Bool(FALSE), << >>, entry)
    ELSE LET p == Process(rule, entry.selection)
             e == WithResult(entry, "builtin", rule.action, p.result)
             ran == <<Fx("process", rule, p.result)>> \o p.fx \o History(rule, p.result)
         IN  IF previewMode(rule) THEN Done(Str(p.result), ran, e)
             ELSE Done(Bool(TRUE), ran \o Output(rule, p.result), e)

\* EXECUTORS[k]
Executor(k, rule, entry, o) ==
    CASE k = 1 -> defaultExecutor(rule, entry)
      [] k = 2 -> scriptExecutor(rule, entry, o)
      [] k = 3 -> promptExecutor(rule, entry)
      [] k = 4 -> searcherExecutor(rule, entry)
      [] k = 5 -> builtinExecutor(rule, entry)

NumExecutors == 5

\* the for loop of execute(): the first truthy result ends it; a string result is
\* returned, anything else gives ''
RECURSIVE RunExecutors(_, _, _, _, _, _)
RunExecutors(k, rule, entry, o, fx, invoked) ==
    IF k > NumExecutors
    THEN [ret |-> << >>, fx |-> fx, entry |-> entry, invoked |-> invoked]
    ELSE LET r == Executor(k, rule, entry, o)
         IN  IF Truthy(r.result)
             THEN [ret |-> IF r.result.isStr THEN r.result.s ELSE << >>,
                   fx |-> fx \o r.fx, entry |-> r.entry, invoked |-> Append(invoked, k)]
             ELSE RunExecutors(k + 1, rule, r.entry, o, fx \o r.fx, Append(invoked, k))

\* execute(rule, selection) with the entry id seq and the script outcome o
execute(rule, selection, seq, o) ==
    LET entry == [id |-> seq, datetime |-> Datetime, clipboard |-> << >>,
                  selection |-> selection, actionType |-> "",
                  actionLabel |-> "", result |-> << >>]
    IN  RunExecutors(1, rule, entry, o, << >>, << >>)

\* the history store after a call of execute()
EntriesAfter(list, x) ==
    IF \E i \in 1..Len(x.fx) : x.fx[i].op = "saveHistory"
    THEN saveHistory(list, x.entry) ELSE list

----------------------------------------------------------------------------
(* Rules handed to the executor chain *)

Selections == {<< >>, <<" ">>, <<" ", "a">>}

\* 'script-y' names a script that is no longer stored
ExecActions == {"", "script-x", "script-y", "prompt-p", "searcher-s", "copy", "trim"}
\* "none" is an undefined outputMode
OutputModes == {"replace", "popup", "none"}

ExecRules ==
    [action : ExecActions, preview : BOOLEAN, outputMode : OutputModes, history : BOOLEAN]

\* the option flags of Binder's action list
noResult(action) == action = "copy" \/ StartsWith(action, SEARCHER_MARK)
promptMode(action) == StartsWith(action, PROMPT_MARK)

\* the rules the Binder dialog can store: it offers no empty action, and for an
\* action without result or in prompt mode it disables preview and fixes outputMode
BinderRules ==
    { r \in ExecRules :
        /\ r.action # ""
        /\ noResult(r.action) => (~r.preview /\ r.outputMode = "none")
        /\ promptMode(r.action) => (~r.preview /\ r.outputMode = "popup") }

\* lists of n rules with distinct actions, as matchAll returns them
RECURSIVE ToolbarListsOfLen(_)
ToolbarListsOfLen(n) ==
    IF n = 0 THEN {<< >>}
    ELSE UNION { { Append(l, r) :
                     r \in {q \in BinderRules :
                              \A i \in 1..Len(l) : l[i].action # q.action} } :
                 l \in ToolbarListsOfLen(n - 1) }
ToolbarLists(max) == UNION {ToolbarListsOfLen(n) : n \in 0..max}

IdleToolbar ==
    /\ tbRules = << >>
    /\ tbPc = "hidden"
    /\ tbActions = << >>
    /\ tbIdx = 1

IdleCall ==
    /\ xRule = [action |-> "", preview |-> FALSE, outputMode |-> "none", history |-> FALSE]
    /\ xRet = Null
    /\ xInvoked = << >>

\* ---- execute() called directly on one rule

InitExec ==
    /\ historySize \in 0..MaxHistory
    /\ xRule \in ExecRules
    /\ xSelection \in Selections
    /\ xRet = Null
    /\ xInvoked = << >>
    /\ entries = << >>
    /\ xLog = << >>
    /\ xSeq = 0
    /\ IdleToolbar

CallExecute ==
    /\ xSeq < MaxCalls
    /\ \E o \in ScriptOutcomes :
          LET x == execute(xRule, xSelection, xSeq, o)
          IN  /\ xRet' = Some(x.ret)
              /\ xInvoked' = x.invoked
              /\ xLog' = xLog \o x.fx
              /\ entries' = EntriesAfter(entries, x)
              /\ xSeq' = xSeq + 1
    /\ UNCHANGED <<xRule, xSelection, tbRules, tbPc, tbActions, tbIdx, notExec>>

\* ---- toolbar window: show-toolbar event, setup(), executeAction()

\* the stored item a custom action id names, Null when there is none
FindItem(actionId) ==
    IF StartsWith(actionId, SCRIPT_MARK) /\ Substring(actionId, SCRIPT_MARK) \in Scripts
    THEN Some(Substring(actionId, SCRIPT_MARK))
    ELSE IF StartsWith(actionId, PROMPT_MARK) /\ Substring(actionId, PROMPT_MARK) \in Prompts
    THEN Some(Substring(actionId, PROMPT_MARK))
    ELSE IF StartsWith(actionId, SEARCHER_MARK)
            /\ Substring(actionId, SEARCHER_MARK) \in Searchers
    THEN Some(Substring(actionId, SEARCHER_MARK))
    ELSE Null

\* mapToAction(rule): Null for an action that resolves to nothing
mapToAction(rule) ==
    IF ~IsNull(FindItem(rule.action))
    THEN Some([id |-> rule.action, label |-> <<Val(FindItem(rule.action))>>, rule |-> rule])
    ELSE IF ~IsNull(findBuiltinAction(rule.action))
    THEN Some([id |-> rule.action, label |-> <<rule.action>>, rule |-> rule])
    ELSE Null

\* data.rules.map(mapToAction).filter((a) => !!a)
RECURSIVE MapToActions(_)
MapToActions(rules) ==
    IF Len(rules) = 0 THEN << >>
    ELSE LET a == mapToAction(Head(rules))
         IN  (IF IsNull(a) THEN << >> ELSE <<Val(a)>>) \o MapToActions(Tail(rules))

InitToolbar ==
    /\ historySize = HistorySize
    /\ tbRules \in ToolbarLists(MaxToolbar)
    /\ xSelection \in Selections
    /\ tbPc = "hidden"
    /\ tbActions = << >>
    /\ tbIdx = 1
    /\ entries = << >>
    /\ xLog = << >>
    /\ xSeq = 0
    /\ IdleCall

\* the show-toolbar listener up to the first await of setup()
ShowToolbar ==
    /\ tbPc = "hidden"
    /\ tbActions' = MapToActions(tbRules)
    /\ tbIdx' = 1
    /\ tbPc' = "setup"
    /\ UNCHANGED <<entries, xLog, xSeq, xRule, xSelection, xRet, xInvoked, tbRules, notExec>>

\* setup() does not run a preview rule again at the click when this holds
previewFailed_Never(result) == FALSE
previewFailed(result) == Len(result) = 0

\* one iteration of the for loop of setup()
SetupAction ==
    /\ tbPc = "setup"
    /\ tbIdx <= Len(tbActions)
    /\ LET action == tbActions[tbIdx]
       IN  IF action.rule.preview
           THEN \E o \in ScriptOutcomes :
                  LET x == execute(action.rule, xSelection, xSeq, o)
                  IN  /\ xLog' = xLog \o x.fx
                      /\ entries' = EntriesAfter(entries, x)
                      /\ xSeq' = xSeq + 1
                      /\ tbActions' =
                            IF previewFailed(x.ret)
                            THEN [tbActions EXCEPT ![tbIdx].rule.preview = FALSE]
                            ELSE [tbActions EXCEPT ![tbIdx].label = x.ret]
           ELSE UNCHANGED <<xLog, entries, xSeq, tbActions>>
    /\ tbIdx' = tbIdx + 1
    /\ UNCHANGED <<xRule, xSelection, xRet, xInvoked, tbRules, tbPc, notExec>>

\* initialized = true
SetupDone ==
    /\ tbPc = "setup"
    /\ tbIdx > Len(tbActions)
    /\ tbPc' = "shown"
    /\ UNCHANGED <<entries, xLog, xSeq, xRule, xSelection, xRet, xInvoked, tbRules, tbActions,
                   tbIdx, notExec>>

\* executeAction(action): the user clicks one of the buttons shown
ExecuteAction ==
    /\ tbPc = "shown"
    /\ \E i \in 1..Len(tbActions) :
          LET action == tbActions[i]
          IN  IF action.rule.preview
              THEN /\ xLog' = xLog \o Output(action.rule, action.label)
                   /\ UNCHANGED <<entries, xSeq>>
              ELSE \E o \in ScriptOutcomes :
                     LET x == execute(action.rule, xSelection, xSeq, o)
                     IN  /\ xLog' = xLog \o x.fx
                         /\ entries' = EntriesAfter(entries, x)
                         /\ xSeq' = xSeq + 1
    /\ tbPc' = "clicked"
    /\ UNCHANGED <<xRule, xSelection, xRet, xInvoked, tbRules, tbActions, tbIdx, notExec>>

\* the hide-toolbar listener: the toolbar goes away without a click
HideToolbar ==
    /\ tbPc = "shown"
    /\ tbPc' = "dismissed"
    /\ UNCHANGED <<entries, xLog, xSeq, xRule, xSelection, xRet, xInvoked, tbRules, tbActions,
                   tbIdx, notExec>>

----------------------------------------------------------------------------
(* Shortcut registry: Manager.register / unregister, Binder.bind / unbind / clear, *)
(* and the catalogs of custom regular expressions and scripts                      *)

DBCLICK_SHORTCUT == "MouseClick+MouseClick"
\* one keyboard combination and one pointer gesture
Triggers == {"Ctrl+A", DBCLICK_SHORTCUT}

\* isMouseShortcut is imported from a helpers module: pointer gestures are fixed
\* sentinel strings distinct from every keyboard combination
isMouseShortcut(shortcut) == shortcut = DBCLICK_SHORTCUT

RegexpIds == {"a", "b"}
ScriptIds == {"x", "y"}

\* the options Binder offers for a rule: Skip and the stored regexps; copy and the
\* stored scripts
CaseOptions == {""} \cup {Concat(REGEXP_MARK, id) : id \in regexps}
ActionOptions == {"copy"} \cup {Concat(SCRIPT_MARK, id) : id \in scripts}

NewRule(id, shortcut, case, action) ==
    [id |-> id, shortcut |-> shortcut, case |-> case, action |-> action]

\* whether a hotkey-backend command succeeds
Outcome == IF faulty THEN BOOLEAN ELSE {TRUE}

\* a hotkey-backend command
Cmd(name, shortcut) == [cmd |-> name, shortcut |-> shortcut]

\* rules.splice(index, 1)
Splice(rules, index) ==
    SubSeq(rules, 1, index - 1) \o SubSeq(rules, index + 1, Len(rules))

\* rules.findIndex((r) => r.id === id), 0 when there is none
FindIndexById(rules, id) ==
    IF \E i \in 1..Len(rules) : rules[i].id = id
    THEN CHOOSE i \in 1..Len(rules) :
            rules[i].id = id /\ \A j \in 1..(i - 1) : rules[j].id # id
    ELSE 0

\* the rule list of a trigger, empty when the trigger is absent
RulesOf(t) == IF IsNull(shortcuts[t]) THEN << >> ELSE Val(shortcuts[t])

\* unregister(): the backend trigger is unbound when this holds after the splice
UnbindNeeded_AnyTrigger(shortcut, rules) == Len(rules) = 0
UnbindNeeded(shortcut, rules) == ~isMouseShortcut(shortcut) /\ Len(rules) = 0

\* Manager.unregister(rule) on the rule list of rule.shortcut, up to its await: the
\* list it leaves and whether it issues unregister_shortcut
unregister(rules, rule) ==
    LET index == FindIndexById(rules, rule.id)
        left == IF index # 0 THEN Splice(rules, index) ELSE rules
    IN  [rules |-> left, unbind |-> UnbindNeeded(rule.shortcut, left)]

\* what one unregister() call did: the list length before and after, and the
\* backend commands it issued
Unreg(shortcut, before, after, calls) ==
    [shortcut |-> shortcut, before |-> before, after |-> after, calls |-> calls]

UnbindCalls(shortcut, u) ==
    IF u.unbind THEN <<Cmd("unregister_shortcut", shortcut)>> ELSE << >>

\* the for-of loop of clear() over the live list s.rules, from index i (1-based) up
\* to the first unregister() that awaits the backend, or to the end of the list
RECURSIVE ClearLoop(_, _, _)
ClearLoop(rules, i, unregs) ==
    IF i > Len(rules)
    THEN [rules |-> rules, i |-> i, unregs |-> unregs, await |-> FALSE]
    ELSE LET u == unregister(rules, rules[i])
             done == Append(unregs, Unreg(rules[i].shortcut, Len(rules), Len(u.rules),
                                          UnbindCalls(rules[i].shortcut, u)))
         IN  IF u.unbind
             THEN [rules |-> u.rules, i |-> i + 1, unregs |-> done, await |-> TRUE]
             ELSE ClearLoop(u.rules, i + 1, done)

\* rules.find((r) => r.shortcut === shortcut && r.case === caseId && r.action === actionId)
IsDuplicate_Never(rules, shortcut, case, action) == FALSE
IsDuplicate(rules, shortcut, case, action) ==
    \E i \in 1..Len(rules) :
        rules[i].shortcut = shortcut /\ rules[i].case = case /\ rules[i].action = action

\* updateCaseId(prefix, caseId, newCaseId)
updateCaseId_FirstOnly(prefix, caseId, newCaseId) ==
    [t \in Triggers |->
        IF IsNull(shortcuts[t]) THEN Null
        ELSE Some([i \in 1..Len(Val(shortcuts[t])) |->
                     LET rule == Val(shortcuts[t])[i]
                     IN  IF rule.case = Concat(prefix, caseId)
                            /\ \A j \in 1..(i - 1) :
                                  Val(shortcuts[t])[j].case # Concat(prefix, caseId)
                         THEN [rule EXCEPT !.case = Concat(prefix, newCaseId)]
                         ELSE rule])]
updateCaseId(prefix, caseId, newCaseId) ==
    [t \in Triggers |->
        IF IsNull(shortcuts[t]) THEN Null
        ELSE Some([i \in 1..Len(Val(shortcuts[t])) |->
                     LET rule == Val(shortcuts[t])[i]
                     IN  IF rule.case = Concat(prefix, caseId)
                         THEN [rule EXCEPT !.case = Concat(prefix, newCaseId)]
                         ELSE rule])]

\* updateActionId(prefix, actionId, newActionId)
updateActionId(prefix, actionId, newActionId) ==
    [t \in Triggers |->
        IF IsNull(shortcuts[t]) THEN Null
        ELSE Some([i \in 1..Len(Val(shortcuts[t])) |->
                     LET rule == Val(shortcuts[t])[i]
                     IN  IF rule.action = Concat(prefix, actionId)
                         THEN [rule EXCEPT !.action = Concat(prefix, newActionId)]
                         ELSE rule])]

\* what a handler step did: the backend commands it issued, the alert it showed
\* ("" for none), the (shortcut, case, action) bind() was called with, the
\* unregister() calls made, a snapshot taken when a register() or a clear()
\* call completes in the step, and the <<field, id, new id>> updateCaseId or
\* updateActionId was called with
Op(calls, alert, attempt, unregs, registered, cleared) ==
    [calls |-> calls, alert |-> alert, attempt |-> attempt, unregs |-> unregs,
     registered |-> registered, cleared |-> cleared, renamed |-> Null]
NoOp == Op(<< >>, "", Null, << >>, Null, Null)

\* s.rules.push(rule) unless the shortcut is absent or holds a rule with the same id
Push(sc, rule) ==
    LET s == sc[rule.shortcut]
    IN  IF ~IsNull(s) /\ FindIndexById(Val(s), rule.id) = 0
        THEN [sc EXCEPT ![rule.shortcut] = Some(Append(Val(s), rule))]
        ELSE sc

\* the registry as a register() call leaves it when it completes
Registered(rule, error, sc, bd, overlapped) ==
    LET rules == IF IsNull(sc[rule.shortcut]) THEN << >> ELSE Val(sc[rule.shortcut])
    IN  Some([rule |-> rule, error |-> error,
              count |-> Cardinality({i \in 1..Len(rules) : rules[i].id = rule.id}),
              bound |-> rule.shortcut \in bd,
              present |-> ~IsNull(sc[rule.shortcut]), len |-> Len(rules),
              overlapped |-> overlapped])

\* the suspended register() call once an unregister() call has run on trigger t
Overlap(r, t) ==
    IF ~IsNull(r) /\ Val(r).rule.shortcut = t
    THEN Some([Val(r) EXCEPT !.overlapped = TRUE])
    ELSE r

\* register(): register_shortcut is issued when this holds after the query
BindNeeded_Never(isRegistered) == FALSE
BindNeeded(isRegistered) == ~isRegistered

\* the try block of register(): a rejected backend call skips the push
AfterRegister_Pushed(sc, rule, error) == Push(sc, rule)
AfterRegister(sc, rule, error) == IF error THEN sc ELSE Push(sc, rule)

\* the registry as a clear() call leaves it when it completes
Cleared(shortcut, n, unregistered, unbinds, sc, bd) ==
    Some([shortcut |-> shortcut, n |-> n, unregistered |-> unregistered,
          unbinds |-> unbinds, present |-> ~IsNull(sc[shortcut]),
          bound |-> shortcut \in bd])

\* a registry without shortcuts, no backend call in flight
EmptyRegistry ==
    /\ shortcuts = [t \in Triggers |-> Null]
    /\ malformed = {}
    /\ bound = {}
    /\ nextId = 0
    /\ reg = Null
    /\ clr = Null
    /\ lastOp = NoOp

\* the shortcuts page, with one regular expression and one script stored and a
\* backend that can or cannot fail
InitReg ==
    /\ EmptyRegistry
    /\ regexps = {"a"}
    /\ scripts = {"x"}
    /\ faulty \in BOOLEAN

\* the shortcuts page and the settings pages, nothing stored yet
InitCatalog ==
    /\ EmptyRegistry
    /\ regexps = {}
    /\ scripts = {}
    /\ faulty = FALSE

\* register(shortcut) of the shortcuts page: a new shortcut with an empty rule list
CreateShortcut ==
    \E t \in Triggers :
        /\ IF ~IsNull(shortcuts[t])
           THEN /\ lastOp' = [NoOp EXCEPT !.alert = "shortcut_already_registered"]
                /\ UNCHANGED shortcuts
           ELSE /\ shortcuts' = [shortcuts EXCEPT ![t] = Some(<< >>)]
                /\ lastOp' = NoOp
        /\ UNCHANGED <<bound, regexps, scripts, nextId, reg, clr, faulty, malformed, notReg>>

\* Manager.register(rule) up to its first await: a pointer gesture needs no backend
\* call and the rule is pushed at once; for a keyboard combination
\* is_shortcut_registered is issued and the call is suspended
StartRegister(rule, name, attempt) ==
    IF isMouseShortcut(rule.shortcut)
    THEN /\ shortcuts' = Push(shortcuts, rule)
         /\ lastOp' = Op(<< >>, IF name = "bind" THEN "rule_added_success" ELSE "",
                         attempt, << >>,
                         Registered(rule, FALSE, shortcuts', bound, FALSE), Null)
         /\ UNCHANGED <<bound, reg>>
    ELSE \E ok \in Outcome :
            /\ reg' = Some([rule |-> rule, pc |-> "query", ok |-> ok, name |-> name,
                            isRegistered |-> rule.shortcut \in bound,
                            overlapped |-> FALSE])
            /\ lastOp' = Op(<<Cmd("is_shortcut_registered", rule.shortcut)>>, "",
                            attempt, << >>, Null, Null)
            /\ UNCHANGED <<shortcuts, bound>>

\* bind() of the Binder dialog, opened for an existing shortcut; the submit button
\* is disabled while an earlier bind() is loading
Bind ==
    \E t \in Triggers, c \in CaseOptions, a \in ActionOptions :
        /\ ~IsNull(shortcuts[t])
        /\ IsNull(reg)
        /\ IF IsDuplicate(Val(shortcuts[t]), t, c, a)
           THEN /\ lastOp' = Op(<< >>, "rule_already_used", Some(<<t, c, a>>), << >>,
                                Null, Null)
                /\ UNCHANGED <<shortcuts, bound, nextId, reg>>
           ELSE /\ nextId < MaxIds
                /\ nextId' = nextId + 1
                /\ StartRegister(NewRule(nextId + 1, t, c, a), "bind", Some(<<t, c, a>>))
        /\ UNCHANGED <<regexps, scripts, clr, faulty, malformed, notReg>>

\* Manager.register called again with a rule that is in the registry
RegisterAgain ==
    \E t \in Triggers :
        \E i \in 1..Len(RulesOf(t)) :
            /\ IsNull(reg)
            /\ StartRegister(RulesOf(t)[i], "register", Null)
            /\ UNCHANGED <<regexps, scripts, nextId, clr, faulty, malformed, notReg>>

\* a register() call completes: with the error rethrown, or with the rule pushed
Complete(r, error) ==
    /\ reg' = Null
    /\ shortcuts' = AfterRegister(shortcuts, r.rule, error)
    /\ lastOp' = Op(<< >>, IF ~error /\ r.name = "bind" THEN "rule_added_success" ELSE "",
                    Null, << >>,
                    Registered(r.rule, error, shortcuts', bound, r.overlapped), Null)

\* register() resumes after is_shortcut_registered
RegisterQueried ==
    /\ ~IsNull(reg)
    /\ Val(reg).pc = "query"
    /\ LET r == Val(reg)
           t == r.rule.shortcut
       IN  IF ~r.ok
           THEN /\ Complete(r, TRUE)
                /\ UNCHANGED bound
           ELSE IF BindNeeded(r.isRegistered)
           THEN \E ok \in Outcome :
                  /\ reg' = Some([r EXCEPT !.pc = "bind", !.ok = ok])
                  /\ bound' = IF ok THEN bound \cup {t} ELSE bound
                  /\ lastOp' = [NoOp EXCEPT !.calls = <<Cmd("register_shortcut", t)>>]
                  /\ UNCHANGED shortcuts
           ELSE /\ Complete(r, FALSE)
                /\ UNCHANGED bound
    /\ UNCHANGED <<regexps, scripts, nextId, clr, faulty, malformed, notReg>>

\* register() resumes after register_shortcut
RegisterBound ==
    /\ ~IsNull(reg)
    /\ Val(reg).pc = "bind"
    /\ Complete(Val(reg), ~Val(reg).ok)
    /\ UNCHANGED <<bound, regexps, scripts, nextId, clr, faulty, malformed, notReg>>

\* the outcome of unregister_shortcut for trigger t, issued when asked is true
Unbound(t, asked) ==
    IF asked
    THEN \E ok \in Outcome : bound' = IF ok THEN bound \ {t} ELSE bound
    ELSE UNCHANGED bound

\* deleting a rule in the rule list of the shortcuts page: List splices the item
\* out of the bound list, then Binder.unbind(item) calls Manager.unregister(item)
UnbindRule ==
    \E t \in Triggers :
        \E i \in 1..Len(RulesOf(t)) :
            LET rules == RulesOf(t)
                rule == rules[i]
                u == unregister(Splice(rules, i), rule)
                calls == UnbindCalls(t, u)
            IN  /\ shortcuts' = [shortcuts EXCEPT ![t] = Some(u.rules)]
                /\ Unbound(t, u.unbind)
                /\ lastOp' = [NoOp EXCEPT !.calls = calls,
                                 !.unregs = <<Unreg(t, Len(rules), Len(u.rules), calls)>>]
                /\ reg' = Overlap(reg, t)
                /\ UNCHANGED <<regexps, scripts, nextId, clr, faulty, malformed, notReg>>

\* clear(shortcut) of the Binder, from the delete button of the shortcuts page: the
\* loop runs to its first backend await, or to its end and the shortcut is deleted
Clear ==
    \E t \in Triggers :
        /\ ~IsNull(shortcuts[t])
        /\ LET rules == Val(shortcuts[t])
               loop == ClearLoop(rules, 1, << >>)
           IN  IF loop.await
               THEN /\ IsNull(clr)
                    /\ shortcuts' = [shortcuts EXCEPT ![t] = Some(loop.rules)]
                    /\ Unbound(t, TRUE)
                    /\ clr' = Some([shortcut |-> t, i |-> loop.i, n |-> Len(rules),
                                    unregistered |-> Len(loop.unregs), unbinds |-> 1,
                                    detached |-> Null])
                    /\ lastOp' = [NoOp EXCEPT !.calls = <<Cmd("unregister_shortcut", t)>>,
                                              !.unregs = loop.unregs]
               ELSE /\ shortcuts' = [shortcuts EXCEPT ![t] = Null]
                    /\ clr' = IF ~IsNull(clr) /\ Val(clr).shortcut = t
                                   /\ IsNull(Val(clr).detached)
                              THEN Some([Val(clr) EXCEPT !.detached = Some(loop.rules)])
                              ELSE clr
                    /\ lastOp' = [NoOp EXCEPT !.unregs = loop.unregs,
                                     !.cleared = Cleared(t, Len(rules), Len(loop.unregs),
                                                         0, shortcuts', bound)]
                    /\ UNCHANGED bound
        /\ reg' = IF Len(Val(shortcuts[t])) > 0 THEN Overlap(reg, t) ELSE reg
        /\ UNCHANGED <<regexps, scripts, nextId, faulty, malformed, notReg>>

\* clear() resumes after unregister_shortcut: the loop goes on over the list object
\* it started on (an unregister() from the second index on leaves a rule in the
\* list, so the loop issues no further backend command), then the entry is deleted
ClearResume ==
    /\ ~IsNull(clr)
    /\ LET c == Val(clr)
           list == IF IsNull(c.detached) THEN RulesOf(c.shortcut) ELSE Val(c.detached)
           loop == ClearLoop(list, c.i, << >>)
       IN  /\ shortcuts' = [shortcuts EXCEPT ![c.shortcut] = Null]
           /\ clr' = Null
           /\ lastOp' = [NoOp EXCEPT !.unregs = loop.unregs,
                            !.cleared = Cleared(c.shortcut, c.n,
                                                c.unregistered + Len(loop.unregs),
                                                c.unbinds, shortcuts', bound)]
           /\ reg' = IF Len(loop.unregs) > 0 THEN Overlap(reg, c.shortcut) ELSE reg
    /\ UNCHANGED <<bound, regexps, scripts, nextId, faulty, malformed, notReg>>

\* the patterns typed into the Regexp dialog: one that compiles and one that does
\* not
Patterns == {"a+", "("}
\* new RegExp(pattern, flags) does not throw
Compiles(pattern) == pattern # "("

\* the ids of the malformed stored patterns once the pattern is stored under id
Stored(bad, id, pattern) ==
    IF Compiles(pattern) THEN bad \ {id} ELSE bad \cup {id}

\* save() of the Regexp dialog, opened to add (regexpId = '') or to update a stored
\* regular expression
SaveRegexp ==
    \E regexpId \in {""} \cup regexps, regexpName \in RegexpIds,
       regexpPattern \in Patterns :
        /\ IF regexpName \in regexps /\ regexpName # regexpId
           THEN /\ lastOp' = [NoOp EXCEPT !.alert = "name_already_used"]
                /\ UNCHANGED <<regexps, malformed, shortcuts>>
           ELSE IF regexpId \in regexps
           THEN /\ regexps' = (regexps \ {regexpId}) \cup {regexpName}
                /\ malformed' = Stored(malformed \ {regexpId}, regexpName, regexpPattern)
                /\ shortcuts' = IF regexpId # regexpName
                                THEN updateCaseId(REGEXP_MARK, regexpId, regexpName)
                                ELSE shortcuts
                /\ lastOp' = [NoOp EXCEPT !.alert = "regexp_updated_success",
                                 !.renamed = IF regexpId # regexpName
                                             THEN Some(<<"case",
                                                         Concat(REGEXP_MARK, regexpId),
                                                         Concat(REGEXP_MARK, regexpName)>>)
                                             ELSE Null]
           ELSE /\ regexps' = regexps \cup {regexpName}
                /\ malformed' = Stored(malformed, regexpName, regexpPattern)
                /\ lastOp' = [NoOp EXCEPT !.alert = "regexp_added_success"]
                /\ UNCHANGED shortcuts
        /\ UNCHANGED <<bound, scripts, nextId, reg, clr, faulty, notReg>>

\* deleting a stored regular expression in the list of the settings page
DeleteRegexp ==
    \E id \in regexps :
        /\ regexps' = regexps \ {id}
        /\ malformed' = malformed \ {id}
        /\ lastOp' = NoOp
        /\ UNCHANGED <<shortcuts, bound, scripts, nextId, reg, clr, faulty, notReg>>

\* save() of the Script dialog, with a script text that is not empty
SaveScript ==
    \E scriptId \in {""} \cup scripts, scriptName \in ScriptIds :
        /\ IF scriptName \in scripts /\ scriptName # scriptId
           THEN /\ lastOp' = [NoOp EXCEPT !.alert = "name_already_used"]
                /\ UNCHANGED <<scripts, shortcuts>>
           ELSE IF scriptId \in scripts
           THEN /\ scripts' = (scripts \ {scriptId}) \cup {scriptName}
                /\ shortcuts' = IF scriptId # scriptName
                                THEN updateActionId(SCRIPT_MARK, scriptId, scriptName)
                                ELSE shortcuts
                /\ lastOp' = [NoOp EXCEPT !.alert = "script_updated_success",
                                 !.renamed = IF scriptId # scriptName
                                             THEN Some(<<"action",
                                                         Concat(SCRIPT_MARK, scriptId),
                                                         Concat(SCRIPT_MARK, scriptName)>>)
                                             ELSE Null]
           ELSE /\ scripts' = scripts \cup {scriptName}
                /\ lastOp' = [NoOp EXCEPT !.alert = "script_added_success"]
                /\ UNCHANGED shortcuts
        /\ UNCHANGED <<bound, regexps, nextId, reg, clr, faulty, malformed, notReg>>

\* deleting a stored script in the list of the settings page
DeleteScript ==
    \E id \in scripts :
        /\ scripts' = scripts \ {id}
        /\ lastOp' = NoOp
        /\ UNCHANGED <<shortcuts, bound, regexps, nextId, reg, clr, faulty, malformed, notReg>>

IdleReg == InitCatalog

----------------------------------------------------------------------------
(* Shortcut events: Manager.handleShortcutEvent(shortcut, selection) *)

\* the selection as the string the recognizers test: none of the selections tried
\* is a URL or a number
Join(selection) ==
    CASE selection = << >> -> ""
      [] selection = <<" ">> -> " "
      [] selection = <<" ", "a">> -> " a"

\* a stored rule: what the recognizers and what the executors read of it
DispatchRule(id, case, action, preview, outputMode, history) ==
    [id |-> id, case |-> case, action |-> action, caseLabel |-> "",
     preview |-> preview, outputMode |-> outputMode, history |-> history]

\* (case, action, preview, outputMode, history) of the stored rules tried
DispatchOptions ==
    { <<"", "copy", FALSE, "none", TRUE>>,
      <<"eng", "trim", FALSE, "replace", TRUE>>,
      <<"regexp-a", "script-x", FALSE, "popup", TRUE>>,
      <<"model-a", "prompt-p", FALSE, "popup", FALSE>> }

DispatchLists(max) ==
    {[i \in 1..Len(p) |-> DispatchRule(i, p[i][1], p[i][2], p[i][3], p[i][4], p[i][5])] :
        p \in UNION {[1..n -> DispatchOptions] : n \in 0..max}}

\* the mode of a shortcut
Modes == {"quiet", "toolbar"}

InitDispatch ==
    /\ dShortcut \in {Null} \cup {Some([mode |-> m, rules |-> l]) :
                                     m \in Modes, l \in DispatchLists(MaxDispatch)}
    /\ dPc = "idle"
    /\ historySize = HistorySize
    /\ xSelection \in Selections
    /\ mText = Join(xSelection)
    /\ mRules = << >>
    /\ envNatural = Null
    /\ envProgramming = Null
    /\ envRegexp = Null
    /\ envPredict = Null
    /\ mPc = "idle"
    /\ mMatchAll = FALSE
    /\ mIdx = 1
    /\ matchedRules = << >>
    /\ matchedActions = {}
    /\ naturalLangs = Null
    /\ programmingLangs = Null
    /\ mCalls = NoCalls
    /\ mEvaluated = {}
    /\ retAll = Null
    /\ retOne = Null
    /\ entries = << >>
    /\ xLog = << >>
    /\ xSeq = 0
    /\ IdleCall
    /\ IdleToolbar

\* if (s.mode === 'toolbar')
UsesToolbar_Always(mode) == TRUE
UsesToolbar(mode) == mode = "toolbar"

\* the shortcut event arrives: handleShortcutEvent returns at once for a shortcut
\* that is absent or has no rules, and calls matchAll or matchOne otherwise
HandleShortcutEvent ==
    /\ dPc = "idle"
    /\ IF IsNull(dShortcut) \/ Len(Val(dShortcut).rules) = 0
       THEN /\ dPc' = "done"
            /\ UNCHANGED <<mRules, mPc, mMatchAll>>
       ELSE /\ dPc' = "matching"
            /\ mRules' = Val(dShortcut).rules
            /\ mPc' = "loop"
            /\ mMatchAll' = UsesToolbar(Val(dShortcut).mode)
    /\ UNCHANGED <<dShortcut, mText, envNatural, envProgramming, envRegexp, envPredict,
                   mIdx, matchedRules, matchedActions, naturalLangs, programmingLangs,
                   mCalls, mEvaluated, retAll, retOne, execVars, rankVars, regVars, setVars, tplVars,
                   chatVars>>

\* matchAll has returned: the toolbar is shown for the matching rules, if any
DispatchToolbar ==
    /\ dPc = "matching"
    /\ mPc = "done"
    /\ mMatchAll
    /\ dPc' = "done"
    /\ IF Len(Val(retAll)) = 0
       THEN UNCHANGED <<xLog, tbRules>>
       ELSE /\ xLog' = Append(xLog, [op |-> "show_toolbar", action |-> "",
                                     text |-> xSelection])
            /\ tbRules' = Val(retAll)
    /\ UNCHANGED <<dShortcut, matchVars, entries, xSeq, xRule, xSelection, xRet, xInvoked,
                   tbPc, tbActions, tbIdx, rankVars, regVars, setVars, tplVars,
                   chatVars>>

\* matchOne has returned: the rule it returned, if any, is executed at once
DispatchQuiet ==
    /\ dPc = "matching"
    /\ mPc = "done"
    /\ ~mMatchAll
    /\ dPc' = "done"
    /\ IF IsNull(Val(retOne))
       THEN UNCHANGED <<xLog, entries, xSeq, xRule, xRet, xInvoked>>
       ELSE \E o \in ScriptOutcomes :
              LET rule == Val(Val(retOne))
                  x == execute(rule, xSelection, xSeq, o)
              IN  /\ xRule' = rule
                  /\ xRet' = Some(x.ret)
                  /\ xInvoked' = x.invoked
                  /\ xLog' = xLog \o x.fx
                  /\ entries' = EntriesAfter(entries, x)
                  /\ xSeq' = xSeq + 1
    /\ UNCHANGED <<dShortcut, matchVars, xSelection, tbRules, tbPc, tbActions, tbIdx,
                   rankVars, regVars, setVars, tplVars,
                   chatVars>>

----------------------------------------------------------------------------
(* Prompt templates: renderPrompt(prompt, entry) *)

\* longest prompt template, in tokens
MaxTemplate == 3
\* longest clipboard or selection value, in tokens
MaxValue == 1

\* the tokens of a template: a letter and the three placeholders
TemplateTokens == {"t", CLIPBOARD, SELECTION, DATETIME}
\* the tokens of a clipboard or selection value: a letter, the text of a
\* placeholder, and the replacement patterns
ValueTokens == {"a", CLIPBOARD, SELECTION, DATETIME, "$&", "$$"}

\* the texts of at most max tokens
TextsOver(tokens, max) == UNION {[1..n -> tokens] : n \in 0..max}

InitPrompt ==
    /\ tplPrompt \in TextsOver(TemplateTokens, MaxTemplate)
    /\ tplClipboard \in TextsOver(ValueTokens, MaxValue)
    /\ tplSelection \in TextsOver(ValueTokens, MaxValue)
    /\ tplResult = Null

\* renderPrompt(prompt, entry) is called
CallRenderPrompt ==
    /\ IsNull(tplResult)
    /\ tplResult' = Some(renderPrompt(tplPrompt,
                                      [clipboard |-> tplClipboard,
                                       selection |-> tplSelection,
                                       datetime |-> Datetime]))
    /\ UNCHANGED <<tplPrompt, tplClipboard, tplSelection, rankVars, matchVars,
                   execVars, regVars, dispVars, setVars, chatVars>>

IdleTpl ==
    /\ tplPrompt = << >>
    /\ tplClipboard = << >>
    /\ tplSelection = << >>
    /\ tplResult = Null

----------------------------------------------------------------------------
(* Popup window: the show-popup / hide-popup listeners, chat() and abort() *)

\* most execute() calls that open the popup
MaxPopups == 2
\* most chat() calls of the popup page
MaxChats == 2
\* most chunks one stream yields
MaxChunks == 1

\* the rules executed: the stored prompt with and without history, and a built-in
\* action whose result goes to the popup
PopupRules ==
    { r \in BinderRules :
        /\ r.action \in {"prompt-p", "trim"}
        /\ r.outputMode = "popup"
        /\ ~r.preview
        /\ r.action = "trim" => ~r.history }

\* JSON.stringify(entry) of showPopup; history records the history flag of the
\* rule that was executed
Payload(entry, rule) ==
    [id |-> entry.id, actionType |-> entry.actionType, result |-> entry.result,
     response |-> << >>, history |-> rule.history]

\* one chat() call: whether its stream is still open, whether abort() reached its
\* client, and the chunks it has yielded
Chat(open, aborted, sent) == [open |-> open, aborted |-> aborted, sent |-> sent]

\* the request goes through the HTTP plugin and the SSE stream of the SDK; what a
\* stream whose controller has been aborted does next, besides yielding a chunk
\* already on its way, is one of: it throws an AbortError, it ends without
\* throwing, it throws another error
AbortedEnds == {"AbortError", "done", "error"}
\* what a stream that has not been aborted does besides yielding a chunk
OpenEnds == {"done", "error"}

PopOp(name, chat) == [name |-> name, chat |-> chat]

\* llmClient?.abort(): the abort controller of the current client, if the stream
\* of that client is still open
AbortClient(page) ==
    IF page.client # 0 /\ page.chats[page.client].open
    THEN [page.chats EXCEPT ![page.client].aborted = TRUE]
    ELSE page.chats

\* abort()
abort_Hide(page) ==
    [page EXCEPT !.autoScroll = FALSE, !.streaming = FALSE, !.visible = FALSE,
                 !.chats = IF page.streaming THEN AbortClient(page) ELSE @]
abort(page) ==
    [page EXCEPT !.autoScroll = FALSE, !.streaming = FALSE,
                 !.chats = IF page.streaming THEN AbortClient(page) ELSE @]

\* setup(data)
setup(page, data) == abort([page EXCEPT !.entry = data])

\* chat() up to its first await: nothing when a chat is streaming or the entry is
\* missing; otherwise a new client is created and its stream is opened
chat(page) ==
    IF page.streaming \/ IsNull(page.entry) THEN page
    ELSE IF Val(page.entry).result = << >> THEN page
    ELSE [page EXCEPT !.client = Len(page.chats) + 1,
                      !.streaming = TRUE,
                      !.autoScroll = TRUE,
                      !.entry = Some([Val(@) EXCEPT !.response = << >>]),
                      !.chats = Append(@, Chat(TRUE, FALSE, 0))]

\* the finally block of chat(), for a call whose stream did not throw an
\* AbortError
Finally(page) == [page EXCEPT !.autoScroll = FALSE, !.streaming = FALSE]

InitChat ==
    /\ popup = [entry |-> Null, streaming |-> FALSE, autoScroll |-> FALSE,
                client |-> 0, chats |-> << >>, visible |-> FALSE]
    /\ popEvents = << >>
    /\ popOp = PopOp("", 0)
    /\ historySize = HistorySize
    /\ entries = << >>
    /\ xLog = << >>
    /\ xSeq = 0
    /\ xSelection = <<"a">>
    /\ IdleCall
    /\ IdleToolbar

\* execute(rule, selection) in the main window for a rule that opens the popup:
\* the backend emits show-popup with the payload of showPopup
ExecutePopupRule ==
    /\ xSeq < MaxPopups
    /\ \E rule \in PopupRules :
          LET x == execute(rule, xSelection, xSeq, CHOOSE o \in ScriptOutcomes : TRUE)
              shown == \E i \in 1..Len(x.fx) : x.fx[i].op = "show_popup"
          IN  /\ xRule' = rule
              /\ xRet' = Some(x.ret)
              /\ xInvoked' = x.invoked
              /\ xLog' = xLog \o x.fx
              /\ entries' = EntriesAfter(entries, x)
              /\ xSeq' = xSeq + 1
              /\ popEvents' = IF shown THEN Append(popEvents, Payload(x.entry, rule))
                               ELSE popEvents
    /\ popOp' = PopOp("execute", 0)
    /\ UNCHANGED <<popup, xSelection, tbRules, tbPc, tbActions, tbIdx, rankVars,
                   matchVars, regVars, dispVars, setVars, tplVars>>

\* the show-popup listener: setup(entry), chat() for a prompt entry, and the
\* window is shown
ShowPopup ==
    /\ popEvents # << >>
    /\ LET data == Head(popEvents)
           ready == setup(popup, Some(data))
           started == IF data.actionType = "prompt" THEN chat(ready) ELSE ready
       IN  /\ data.actionType = "prompt" => Len(popup.chats) < MaxChats
           /\ popup' = [started EXCEPT !.visible = TRUE]
    /\ popEvents' = Tail(popEvents)
    /\ popOp' = PopOp("show-popup", 0)
    /\ UNCHANGED <<rankVars, matchVars, execVars, regVars, dispVars, setVars, tplVars>>

\* the window is hidden and the hide-popup listener runs setup(null)
HidePopup ==
    /\ popup.visible
    /\ popup' = [setup(popup, Null) EXCEPT !.visible = FALSE]
    /\ popOp' = PopOp("hide-popup", 0)
    /\ UNCHANGED <<popEvents, rankVars, matchVars, execVars, regVars, dispVars,
                   setVars, tplVars>>

\* the stop button, enabled while streaming && entry.response
StopChat ==
    /\ popup.visible
    /\ ~IsNull(popup.entry)
    /\ Val(popup.entry).actionType = "prompt"
    /\ popup.streaming
    /\ Val(popup.entry).response # << >>
    /\ popup' = abort(popup)
    /\ popOp' = PopOp("abort", 0)
    /\ UNCHANGED <<popEvents, rankVars, matchVars, execVars, regVars, dispVars,
                   setVars, tplVars>>

\* the regenerate button, enabled unless streaming || !entry.response
Regenerate ==
    /\ popup.visible
    /\ ~IsNull(popup.entry)
    /\ Val(popup.entry).actionType = "prompt"
    /\ ~popup.streaming
    /\ Val(popup.entry).response # << >>
    /\ Len(popup.chats) < MaxChats
    /\ popup' = chat(popup)
    /\ popOp' = PopOp("chat", 0)
    /\ UNCHANGED <<popEvents, rankVars, matchVars, execVars, regVars, dispVars,
                   setVars, tplVars>>

\* the stream of chat() call c yields a chunk: the loop breaks when streaming is
\* off (the finally block follows), and appends the chunk to the response of the
\* entry shown otherwise; a chunk is written as the number of the call it is of
StreamChunk ==
    \E c \in 1..Len(popup.chats) :
        /\ popup.chats[c].open
        /\ popup.chats[c].sent < MaxChunks
        /\ popup' =
             IF ~popup.streaming \/ IsNull(popup.entry)
             THEN [Finally(popup) EXCEPT !.chats[c].open = FALSE]
             ELSE [popup EXCEPT !.chats[c].sent = @ + 1,
                                !.entry = Some([Val(@) EXCEPT
                                                   !.response = Append(@, c)])]
        /\ popOp' = PopOp("chunk", c)
        /\ UNCHANGED <<popEvents, rankVars, matchVars, execVars, regVars, dispVars,
                       setVars, tplVars>>

\* the stream of chat() call c ends or throws: an AbortError sets aborted and the
\* finally block does nothing; another error is written to the response of the
\* entry shown; for everything but an AbortError the finally block runs
StreamEnd ==
    \E c \in 1..Len(popup.chats) :
        /\ popup.chats[c].open
        /\ \E how \in IF popup.chats[c].aborted THEN AbortedEnds ELSE OpenEnds :
              /\ popup' =
                   LET closed == [popup EXCEPT !.chats[c].open = FALSE]
                       failed == IF IsNull(closed.entry) THEN closed
                                 ELSE [closed EXCEPT
                                          !.entry = Some([Val(@) EXCEPT
                                                             !.response = <<"error">>])]
                   IN  CASE how = "AbortError" -> closed
                         [] how = "done" -> Finally(closed)
                         [] how = "error" -> Finally(failed)
              /\ popOp' = PopOp(how, c)
        /\ UNCHANGED <<popEvents, rankVars, matchVars, execVars, regVars, dispVars,
                       setVars, tplVars>>

IdleChat ==
    /\ popup = [entry |-> Null, streaming |-> FALSE, autoScroll |-> FALSE,
                client |-> 0, chats |-> << >>, visible |-> FALSE]
    /\ popEvents = << >>
    /\ popOp = PopOp("", 0)

----------------------------------------------------------------------------
(* Specifications *)

\* variables of the parts a specification does not exercise
IdleRank ==
    /\ rkResults = << >>
    /\ rkTarget = "A"
    /\ rkNatural = Null
    /\ rkProgramming = Null

IdleMatch ==
    /\ mText = ""
    /\ mRules = << >>
    /\ envNatural = Null
    /\ envProgramming = Null
    /\ envRegexp = Null
    /\ envPredict = Null
    /\ mPc = "idle"
    /\ mMatchAll = FALSE
    /\ mIdx = 1
    /\ matchedRules = << >>
    /\ matchedActions = {}
    /\ naturalLangs = Null
    /\ programmingLangs = Null
    /\ mCalls = NoCalls
    /\ mEvaluated = {}
    /\ retAll = Null
    /\ retOne = Null

IdleExec ==
    /\ historySize = HistorySize
    /\ entries = << >>
    /\ xLog = << >>
    /\ xSeq = 0
    /\ xSelection = << >>
    /\ IdleCall
    /\ IdleToolbar

IdleDispatch ==
    /\ dShortcut = Null
    /\ dPc = "idle"

\* the rank-adjusted confidence rule on every ranked list
RankInit == InitRank /\ IdleMatch /\ IdleExec /\ IdleReg /\ IdleDispatch /\ IdleTpl /\ IdleChat
RankNext == CallMatchNaturalCase \/ CallMatchProgrammingCase
SpecRank == RankInit /\ [][RankNext]_vars

\* matchAll and matchOne on one text and one rule list
MatchInit == InitMatch /\ IdleRank /\ IdleExec /\ IdleReg /\ IdleDispatch /\ IdleTpl /\ IdleChat
MatchNext == CallMatchAll \/ CallMatchOne \/ MatchSkipRule \/ MatchRule \/ MatchReturn
SpecMatch == MatchInit /\ [][MatchNext]_vars

\* execute() called on one rule, every rule of the Rule type
ExecInit == InitExec /\ IdleRank /\ IdleMatch /\ IdleReg /\ IdleDispatch /\ IdleTpl /\ IdleChat
ExecNext == CallExecute
SpecExec == ExecInit /\ [][ExecNext]_vars

\* one trigger handled in toolbar mode, from the show-toolbar event to the click
ToolbarInit == InitToolbar /\ IdleRank /\ IdleMatch /\ IdleReg /\ IdleDispatch /\ IdleTpl /\ IdleChat
ToolbarNext == ShowToolbar \/ SetupAction \/ SetupDone \/ ExecuteAction \/ HideToolbar
SpecToolbar == ToolbarInit /\ [][ToolbarNext]_vars

\* the shortcuts page working on the registry and the hotkey backend
RegInit == InitReg /\ IdleRank /\ IdleMatch /\ IdleExec /\ IdleDispatch /\ IdleTpl /\ IdleChat
RegNext ==
    \/ CreateShortcut \/ Bind \/ RegisterAgain \/ RegisterQueried \/ RegisterBound
    \/ UnbindRule \/ Clear \/ ClearResume
SpecReg == RegInit /\ [][RegNext]_vars

\* deleting a rule while no register() call is suspended
UnbindRuleAlone == IsNull(reg) /\ UnbindRule

\* the shortcuts page with one register() or unregister() call at a time: a call
\* starts only when the one before it has completed
SeqInit == InitReg /\ IdleRank /\ IdleMatch /\ IdleExec /\ IdleDispatch /\ IdleTpl /\ IdleChat
SeqNext ==
    \/ CreateShortcut \/ Bind \/ RegisterAgain \/ RegisterQueried \/ RegisterBound
    \/ UnbindRuleAlone
SpecSeq == SeqInit /\ [][SeqNext]_vars

\* binding and unbinding rules while custom cases and actions are created, renamed
\* and deleted in the settings pages
CatalogInit == InitCatalog /\ IdleRank /\ IdleMatch /\ IdleExec /\ IdleDispatch /\ IdleTpl /\ IdleChat
CatalogNext ==
    \/ CreateShortcut \/ Bind \/ RegisterQueried \/ RegisterBound \/ UnbindRule
    \/ SaveRegexp \/ DeleteRegexp \/ SaveScript \/ DeleteScript
SpecCatalog == CatalogInit /\ [][CatalogNext]_vars

\* renderPrompt applied to one template and one entry
PromptInit ==
    InitPrompt /\ IdleRank /\ IdleMatch /\ IdleExec /\ IdleReg /\ IdleDispatch
        /\ IdleChat
PromptNext == CallRenderPrompt
SpecPrompt == PromptInit /\ [][PromptNext]_vars

\* rules that open the popup are executed in the main window while the popup page
\* handles its events, its buttons and the streams of its chats
ChatInit ==
    InitChat /\ IdleRank /\ IdleMatch /\ IdleReg /\ IdleDispatch /\ IdleTpl
ChatNext ==
    \/ ExecutePopupRule \/ ShowPopup \/ HidePopup \/ StopChat \/ Regenerate
    \/ StreamChunk \/ StreamEnd
SpecChat == ChatInit /\ [][ChatNext]_vars

\* one shortcut event, from its arrival to the return of handleShortcutEvent
DispatchInit == InitDispatch /\ IdleRank /\ IdleReg /\ IdleTpl /\ IdleChat
DispatchNext ==
    \/ HandleShortcutEvent \/ MatchSkipRule \/ MatchRule \/ MatchReturn
    \/ DispatchToolbar \/ DispatchQuiet
SpecDispatch == DispatchInit /\ [][DispatchNext]_vars

----------------------------------------------------------------------------
(* Properties of the match orchestrator *)

\* what each collaborator does on mText: as observed, or its first outcome when never asked
EnvOf(env, all) == IF IsNull(env) THEN CHOOSE o \in all : TRUE ELSE Val(env)

\* the recognizer chain succeeds on the i-th rule of mRules
Succeeds(i) ==
    ChainSucceeds(mText, mRules[i],
                  EnvOf(envNatural, NaturalOutcomes), EnvOf(envProgramming, ProgrammingOutcomes),
                  EnvOf(envRegexp, RegexpOutcomes), EnvOf(envPredict, PredictOutcomes))

\* C1: the list returned by matchAll(t, R) never contains two rules with the same action id
C1_MatchAllDistinctActions ==
    ~IsNull(retAll) =>
        \A i, j \in 1..Len(Val(retAll)) :
            i # j => Val(retAll)[i].action # Val(retAll)[j].action

\* matchAll has returned at least two rules and has passed over a Skip rule, which
\* always matches, because its action had been matched by an earlier rule
C1_Witness ==
    /\ ~IsNull(retAll)
    /\ mPc = "done"
    /\ mMatchAll
    /\ Len(Val(retAll)) >= 2
    /\ \E j \in 1..Len(mRules) : j \notin mEvaluated /\ mRules[j].case = ""

\* C2: matchOne(t, R) returns null exactly when matchAll(t, R) returns the empty list;
\* otherwise it returns a rule that also appears in matchAll(t, R), and that rule is
\* the earliest rule of R whose recognizer chain succeeds
C2_MatchOneConsistent ==
    (~IsNull(retAll) /\ ~IsNull(retOne)) =>
        LET all == Val(retAll)
            one == Val(retOne)
        IN  /\ IsNull(one) <=> Len(all) = 0
            /\ ~IsNull(one) =>
                  /\ Val(one) \in Range(all)
                  /\ \E i \in 1..Len(mRules) :
                        /\ mRules[i].id = Val(one).id
                        /\ Succeeds(i)
                        /\ \A j \in 1..(i - 1) : ~Succeeds(j)

\* both calls have returned; matchOne returned a rule that is not the first of the list,
\* and matchAll returned it among others
C2_Witness ==
    /\ ~IsNull(retAll)
    /\ ~IsNull(retOne)
    /\ ~IsNull(Val(retOne))
    /\ Val(Val(retOne)).id >= 2
    /\ Len(Val(retAll)) >= 2

\* C12: within one matchOne or matchAll call francAll and runModel are each invoked
\* at most once, whatever the rules of the list and whether the call succeeds or
\* throws
C12_ClassifyAtMostOnce ==
    mCalls.francAll <= 1 /\ mCalls.runModel <= 1

\* the for loop of match() is about to run the matcher chain on a rule
AtRule ==
    /\ mPc = "loop"
    /\ mIdx <= Len(mRules)
    /\ mRules[mIdx].action \notin matchedActions

\* C13: whatever the text, the empty text included, the matcher chain run on a rule
\* whose case is Skip matches: the rule is returned (matchOne) or collected
\* (matchAll) with its fields unchanged, and no francAll, runModel, RegExp or
\* predict call is made for it
C13_SkipAlwaysMatches ==
    [][(AtRule /\ mRules[mIdx].case = "")
          => /\ mCalls' = mCalls
             /\ <<envNatural, envProgramming, envRegexp, envPredict>>'
                    = <<envNatural, envProgramming, envRegexp, envPredict>>
             /\ IF mMatchAll
                THEN matchedRules' = Append(matchedRules, mRules[mIdx])
                ELSE retOne' = Some(Some(mRules[mIdx]))]_vars

\* matchOne has returned a Skip rule on the empty text, after a rule with another
\* case, without any classification call
C13_Witness ==
    /\ mText = ""
    /\ mPc = "done"
    /\ ~mMatchAll
    /\ ~IsNull(retOne)
    /\ ~IsNull(Val(retOne))
    /\ Val(Val(retOne)).case = ""
    /\ Val(Val(retOne)).caseLabel = ""
    /\ Val(Val(retOne)).id = 2
    /\ mCalls = NoCalls

\* C14: for a non-empty text and a rule that names the stored custom model, the
\* matcher chain matches the rule exactly when predict returns a confidence that
\* is not null and is at least the threshold stored with the model; a confidence
\* equal to the threshold matches
C14_ModelThreshold ==
    [][(AtRule /\ mText # "" /\ mRules[mIdx].case = "model-a"
           /\ Val(envPredict').model # "missing")
          => LET o == Val(envPredict')
                 accepted == o.model = "trained" /\ o.predict >= 0
                                /\ o.predict >= ModelThreshold
                 matched == IF mMatchAll
                            THEN Len(matchedRules') = Len(matchedRules) + 1
                            ELSE mPc' = "done"
             IN  /\ matched <=> accepted
                 /\ (o.model = "trained" /\ o.predict = ModelThreshold) => matched]_vars

\* matchAll has collected the rule of the custom model on a confidence equal to
\* the threshold
C14_Witness ==
    /\ mText # ""
    /\ mMatchAll
    /\ envPredict = Some([model |-> "trained", predict |-> ModelThreshold])
    /\ \E i \in 1..Len(matchedRules) :
          matchedRules[i].case = "model-a" /\ matchedRules[i].caseLabel = "a"

\* a collaborator failed while the i-th rule of mRules was evaluated
Failed(i) ==
    /\ i \in mEvaluated
    /\ mText # ""
    /\ \/ mRules[i].case \in {"eng", "jpn"} /\ envNatural = Some([throws |-> TRUE, list |-> << >>])
       \/ mRules[i].case = "py" /\ envProgramming = Some([throws |-> TRUE, list |-> << >>])
       \/ mRules[i].case = "regexp-a" /\ envRegexp = Some("malformed")
       \/ mRules[i].case = "model-a" /\ envPredict = Some([model |-> "trained", predict |-> -2])

\* the indices of the rules a call that has returned gave back
Returned ==
    IF mMatchAll THEN {matchedRules[k].id : k \in 1..Len(matchedRules)}
    ELSE IF IsNull(retOne) \/ IsNull(Val(retOne)) THEN {}
    ELSE {Val(Val(retOne)).id}

\* C18: no exception leaves matchOne or matchAll; a rule during whose evaluation
\* francAll, runModel, the custom regular expression (a malformed pattern
\* included) or predict failed is not among the rules returned, and every later
\* rule is still evaluated, unless matchAll passes it over for its action or
\* matchOne has returned before it
C18_MatchNeverThrows ==
    /\ mPc # "thrown"
    /\ mPc = "done" =>
          \A i \in 1..Len(mRules) :
              Failed(i) =>
                  /\ i \notin Returned
                  /\ \A j \in (i + 1)..Len(mRules) :
                        \/ j \in mEvaluated
                        \/ mMatchAll /\ mRules[j].action \in matchedActions
                        \/ ~mMatchAll /\ \E r \in Returned : r < j

\* matchAll has returned the second rule of the list after the custom regular
\* expression of the first one turned out malformed
C18_Witness ==
    /\ mPc = "done"
    /\ mMatchAll
    /\ Len(mRules) >= 2
    /\ mRules[1].case = "regexp-a"
    /\ envRegexp = Some("malformed")
    /\ Failed(1)
    /\ Returned = {2}

----------------------------------------------------------------------------
(* Properties of the rank-adjusted confidence rule *)

\* the rule as stated: the target is at zero-based rank i with confidence c, and
\* c > 0.5 + 0.1*i, or c > 0.2 and i < 3 and c - next > 0.15
RankAdjusted(target, results) ==
    \E i \in 0..(Len(results) - 1) :
        /\ results[i + 1].code = target
        /\ LET c == results[i + 1].conf
               next == IF i + 2 <= Len(results) THEN results[i + 2].conf ELSE 0
           IN  \/ c > 50 + 10 * i
               \/ (c > 20 /\ i < 3 /\ c - next > 15)

ExampleList == <<Detection("A", 55), Detection("B", 30), Detection("C", 10)>>

\* C3: matchNaturalCase and matchProgrammingCase each return true exactly when the
\* rank-adjusted confidence rule accepts the target; on [(A,0.55),(B,0.3),(C,0.1)]
\* targets A and B match and target C does not
C3_RankAdjustedRule ==
    /\ ~IsNull(rkNatural) => (Val(rkNatural) <=> RankAdjusted(rkTarget, rkResults))
    /\ ~IsNull(rkProgramming) => (Val(rkProgramming) <=> RankAdjusted(rkTarget, rkResults))
    /\ (rkResults = ExampleList /\ ~IsNull(rkNatural)) =>
           (Val(rkNatural) <=> rkTarget \in {"A", "B"})
    /\ (rkResults = ExampleList /\ ~IsNull(rkProgramming)) =>
           (Val(rkProgramming) <=> rkTarget \in {"A", "B"})

\* both functions have accepted target B of the example list through the margin test
C3_Witness ==
    /\ rkResults = ExampleList
    /\ rkTarget = "B"
    /\ rkNatural = Some(TRUE)
    /\ rkProgramming = Some(TRUE)

----------------------------------------------------------------------------
(* Properties of the executor chain and of the toolbar flow *)

\* the items of xLog that are the work of an action: a script run, a prompt render,
\* a URL open, a built-in processing
WorkOps == {"executeScript", "renderPrompt", "openUrl", "process"}
Executions(action) ==
    Cardinality({i \in 1..Len(xLog) : xLog[i].op \in WorkOps /\ xLog[i].action = action})

\* the items of xLog that replace the selection or display a popup
OutputOps == {"enter_text", "show_popup"}
Outputs == {i \in 1..Len(xLog) : xLog[i].op \in OutputOps}

\* C4: for one trigger handled in toolbar mode, the executor of each matched rule is
\* executed at most once from toolbar setup to the click, rules with preview set and
\* rules whose preview execution returned an empty or failed result included
C4_AtMostOnce ==
    \A i \in 1..Len(tbRules) : Executions(tbRules[i].action) <= 1

Resolves(rule) ==
    \/ rule.action \in {"script-x", "prompt-p", "searcher-s"}
    \/ rule.action \in {"copy", "trim"}

\* the saveHistory calls made so far
Saves == {i \in 1..Len(xLog) : xLog[i].op = "saveHistory"}

\* C15: for a rule whose action resolves to a stored script, prompt or searcher or
\* to a built-in action, each execute call makes exactly one saveHistory call when
\* rule.history is set and none when it is not, whatever rule.preview,
\* rule.outputMode and the kind of the action
C15_HistoryAuthoritative ==
    Resolves(xRule) =>
        /\ Cardinality(Saves) = (IF xRule.history THEN xSeq ELSE 0)
        /\ \A i \in Saves : xLog[i].action = xRule.action
        /\ historySize >= 1 => ((Len(entries) = 0) <=> (Saves = {}))

\* execute has run once on a prompt rule with history and preview set and has
\* saved one entry
C15_Witness ==
    /\ xRule.action = "prompt-p"
    /\ xRule.history
    /\ xRule.preview
    /\ xSeq = 1
    /\ Cardinality(Saves) = 1
    /\ Len(entries) = 1
    /\ entries[1].actionType = "prompt"

\* C16: for one trigger handled in toolbar mode at most one entry is saved to the
\* history, and none before the user has clicked an action: showing the toolbar,
\* and dismissing it without a click, saves none
C16_OneEntryPerTrigger ==
    /\ Cardinality(Saves) <= 1
    /\ tbPc # "clicked" => (Saves = {} /\ entries = << >>)

Added == SubSeq(xLog', Len(xLog) + 1, Len(xLog'))

\* C19: when the run of the script fails, the error text is the result of the
\* run and of the entry, no exception leaves execute, neither enter_text nor a
\* popup is issued, and execute returns '' and not the error text, for a rule
\* with preview set too
C19_ScriptErrorCaptured ==
    [][(\E k \in 1..Len(Added) :
            Added[k].op = "executeScript" /\ Added[k].text = <<"E">>)
          => /\ xRet' = Some(<< >>)
             /\ \A k \in 1..Len(Added) : Added[k].op \notin {"enter_text", "show_popup"}
             /\ (xRule.history /\ historySize >= 1) => entries'[1].result = <<"E">>]_vars

\* the script of a rule with preview set, outputMode "replace" and history has
\* failed: execute returned '', issued no output and saved the error as result
C19_Witness ==
    /\ xRule.action = "script-x"
    /\ xRule.preview
    /\ xRule.outputMode = "replace"
    /\ xRule.history
    /\ xSeq = 1
    /\ xRet = Some(<< >>)
    /\ Len(entries) = 1
    /\ entries[1].result = <<"E">>
    /\ Outputs = {}

------------------------------------------------------------------------------
(* Properties of the shortcut registry *)

\* C6: an unregister that removes the last remaining rule of a keyboard-triggered
\* shortcut issues exactly one unregister_shortcut call for that trigger; one that
\* removes the last remaining rule of a pointer-gesture shortcut issues none; and
\* one that leaves at least one rule in the list issues none
C6_UnbindOnLastRule ==
    \A k \in 1..Len(lastOp.unregs) :
        LET u == lastOp.unregs[k]
            last == u.before = 1 /\ u.after = 0
        IN  /\ (last /\ u.shortcut # DBCLICK_SHORTCUT)
                    => u.calls = <<Cmd("unregister_shortcut", u.shortcut)>>
            /\ (last /\ u.shortcut = DBCLICK_SHORTCUT) => u.calls = << >>
            /\ u.after >= 1 => u.calls = << >>

\* the only rule of Ctrl+A has just been unregistered, with one unregister_shortcut
\* call for Ctrl+A
C6_Witness ==
    \E k \in 1..Len(lastOp.unregs) :
        /\ lastOp.unregs[k].shortcut = "Ctrl+A"
        /\ lastOp.unregs[k].before = 1
        /\ lastOp.unregs[k].after = 0
        /\ lastOp.unregs[k].calls = <<Cmd("unregister_shortcut", "Ctrl+A")>>
        /\ lastOp.calls = <<Cmd("unregister_shortcut", "Ctrl+A")>>

\* the rule list of trigger t holds a rule with case c and action a
HasPair(t, c, a) ==
    \E i \in 1..Len(RulesOf(t)) : RulesOf(t)[i].case = c /\ RulesOf(t)[i].action = a

\* C7: a bind whose (shortcut, case, action) equals that of a rule already in the
\* list of that shortcut shows the duplicate-rule error, issues no hotkey-backend
\* call and leaves the registry, the rule list of the shortcut included, unchanged
C7_DuplicateBindFails ==
    [][\A t \in Triggers, c \in CaseOptions, a \in ActionOptions :
          (lastOp'.attempt = Some(<<t, c, a>>) /\ HasPair(t, c, a))
              => /\ lastOp'.alert = "rule_already_used"
                 /\ lastOp'.calls = << >>
                 /\ shortcuts' = shortcuts
                 /\ bound' = bound
                 /\ reg' = reg]_vars

\* a bind on Ctrl+A of the pair its one rule holds has just been refused with the
\* duplicate-rule error and without a backend call
C7_Witness ==
    /\ ~IsNull(lastOp.attempt)
    /\ Val(lastOp.attempt)[1] = "Ctrl+A"
    /\ "Ctrl+A" \in bound
    /\ HasPair(Val(lastOp.attempt)[1], Val(lastOp.attempt)[2], Val(lastOp.attempt)[3])
    /\ Len(RulesOf(Val(lastOp.attempt)[1])) = 1
    /\ lastOp.alert = "rule_already_used"
    /\ lastOp.calls = << >>

\* C8: in every reachable state no two rules of one shortcut share the same
\* (case, action) pair, whatever the sequence of binds, unbinds and creations,
\* renames and deletions of stored regular expressions and scripts
C8_NoDuplicatePairs ==
    \A t \in Triggers :
        \A i, j \in 1..Len(RulesOf(t)) :
            (RulesOf(t)[i].case = RulesOf(t)[j].case
                /\ RulesOf(t)[i].action = RulesOf(t)[j].action) => i = j

\* C9: when clear() of a keyboard-triggered shortcut with n >= 1 rules completes,
\* with a backend that does not fail, each of the n rules has been unregistered,
\* exactly one unregister_shortcut call has been issued, the shortcut is absent
\* from the registry and its trigger is not bound
C9_ClearUnregistersAll ==
    (~IsNull(lastOp.cleared) /\ ~faulty)
        => LET c == Val(lastOp.cleared)
           IN  (c.shortcut # DBCLICK_SHORTCUT /\ c.n >= 1)
                   => /\ c.unregistered = c.n
                      /\ c.unbinds = 1
                      /\ ~c.present
                      /\ ~c.bound

\* C10: when register(rule) completes without error the rule list of the shortcut
\* holds exactly one rule with the id of the rule and, for a keyboard trigger, the
\* trigger is bound with the hotkey backend
C10_RegisteredActive ==
    (~IsNull(lastOp.registered) /\ ~Val(lastOp.registered).error)
        => LET g == Val(lastOp.registered)
           IN  /\ g.count = 1
               /\ g.rule.shortcut # DBCLICK_SHORTCUT => g.bound

------------------------------------------------------------------------------
(* Properties of the shortcut events *)

\* the shortcut of the event is known and has at least one rule
HasRules == ~IsNull(dShortcut) /\ Len(Val(dShortcut).rules) >= 1

\* the index of the first rule of mRules whose recognizer chain succeeds, 0 when
\* there is none
FirstMatch ==
    IF \E i \in 1..Len(mRules) : Succeeds(i)
    THEN CHOOSE i \in 1..Len(mRules) : Succeeds(i) /\ \A j \in 1..(i - 1) : ~Succeeds(j)
    ELSE 0

\* C11: when handleShortcutEvent has returned for a shortcut in quiet mode, execute
\* has been called exactly once, on the first rule in list order whose recognizer
\* chain succeeds, and no toolbar is shown; for a shortcut that is unknown, has no
\* rules or has no matching rule, no executor has run, no toolbar is shown and no
\* history entry is written
C11_QuietDispatch ==
    dPc = "done" =>
        /\ (HasRules /\ Val(dShortcut).mode = "quiet" /\ FirstMatch # 0)
               => /\ xSeq = 1
                  /\ xRule.id = FirstMatch
                  /\ \A k \in 1..Len(xLog) :
                        xLog[k].op # "show_toolbar" /\ xLog[k].action = xRule.action
        /\ (~HasRules \/ FirstMatch = 0)
               => (xSeq = 0 /\ xLog = << >> /\ entries = << >> /\ IsNull(xRet))

\* a quiet shortcut with two rules: the first did not match, the second has been
\* executed and has written its history entry
C11_Witness ==
    /\ dPc = "done"
    /\ HasRules
    /\ Val(dShortcut).mode = "quiet"
    /\ Len(mRules) = 2
    /\ FirstMatch = 2
    /\ xSeq = 1
    /\ xRule.id = 2
    /\ Len(entries) = 1

\* C20: a custom regular expression whose pattern does not compile is rejected by
\* save() of the Regexp dialog and never stored: no stored regular expression has
\* a malformed pattern
C20_NoMalformedStored ==
    malformed = {}

------------------------------------------------------------------------------
(* Properties of overlapping and of failing registry calls *)

\* C21: when a register() call on a keyboard-triggered shortcut has completed
\* without error, an unregister() call on the same shortcut having run while it
\* was suspended at a hotkey-backend await and no backend call having failed, the
\* trigger is bound with the hotkey backend if and only if the rule list of the
\* shortcut is non-empty
C21_OverlapConsistent ==
    (~IsNull(lastOp.registered) /\ ~faulty)
        => LET g == Val(lastOp.registered)
           IN  (g.overlapped /\ ~g.error /\ g.present
                    /\ g.rule.shortcut # DBCLICK_SHORTCUT)
                   => (g.bound <=> g.len >= 1)

\* the shortcut of trigger t exists and its trigger is bound exactly when its rule
\* list is non-empty
Consistent(t) ==
    ~IsNull(shortcuts[t]) => ((t \in bound) <=> (Len(RulesOf(t)) >= 1))

\* C22: with register() and unregister() calls made one at a time and a backend
\* that does not fail, whenever no call is suspended the trigger of every existing
\* keyboard-triggered shortcut is bound with the hotkey backend if and only if its
\* rule list is non-empty
C22_SequentialConsistent ==
    (IsNull(reg) /\ ~faulty)
        => \A t \in Triggers : t # DBCLICK_SHORTCUT => Consistent(t)

\* rule 1 of Ctrl+A has been registered and deleted and rule 2 has just been
\* registered: the list holds one rule and the trigger is bound
C22_Witness ==
    /\ ~faulty
    /\ IsNull(reg)
    /\ nextId = 2
    /\ Len(RulesOf("Ctrl+A")) = 1
    /\ RulesOf("Ctrl+A")[1].id = 2
    /\ "Ctrl+A" \in bound
    /\ ~IsNull(lastOp.registered)

\* C27: when register(rule) resumes after a failed is_shortcut_registered or
\* register_shortcut call, the call completes with the error rethrown and leaves
\* every rule list as it was: the rule is not appended; and no step of a
\* register() call before its completion changes a rule list
C27_FailedRegisterKeepsRules ==
    [][/\ (~IsNull(reg) /\ ~Val(reg).ok /\ IsNull(reg'))
            => /\ ~IsNull(lastOp'.registered)
               /\ Val(lastOp'.registered).error
               /\ Val(lastOp'.registered).rule = Val(reg).rule
               /\ lastOp'.alert = ""
               /\ shortcuts' = shortcuts
       /\ (~IsNull(reg') /\ lastOp'.unregs = << >> /\ IsNull(lastOp'.cleared)
             /\ lastOp'.calls # << >>)
            => shortcuts' = shortcuts]_vars

\* a bind on Ctrl+A has failed at register_shortcut: the error is rethrown, the
\* list of Ctrl+A is still empty and the trigger is not bound
C27_Witness ==
    /\ faulty
    /\ ~IsNull(lastOp.registered)
    /\ Val(lastOp.registered).error
    /\ Val(lastOp.registered).rule.shortcut = "Ctrl+A"
    /\ Val(lastOp.registered).count = 0
    /\ Val(lastOp.registered).len = 0
    /\ "Ctrl+A" \notin bound
    /\ IsNull(reg)

------------------------------------------------------------------------------
(* Further properties of the match orchestrator *)

\* the indices of the rules of mRules whose recognizer chain succeeds while no
\* earlier rule with the same action succeeds
Kept ==
    {i \in 1..Len(mRules) :
        /\ Succeeds(i)
        /\ \A j \in 1..(i - 1) : mRules[j].action = mRules[i].action => ~Succeeds(j)}

\* C24: matchAll(t, R) returns, in the order of R, exactly the rules of R whose
\* recognizer chain succeeds on t and for which no earlier rule of R with the same
\* action succeeds on t; a rule that does not match suppresses no later rule
C24_MatchAllExact ==
    ~IsNull(retAll) =>
        LET all == Val(retAll)
        IN  /\ {all[k].id : k \in 1..Len(all)} = Kept
            /\ \A k \in 1..Len(all) :
                  /\ all[k].case = mRules[all[k].id].case
                  /\ all[k].action = mRules[all[k].id].action
            /\ \A k, l \in 1..Len(all) : k < l => all[k].id < all[l].id

\* matchAll has returned a rule that comes after a rule with the same action whose
\* chain ran and failed, and has left out a later rule with that action
C24_Witness ==
    /\ ~IsNull(retAll)
    /\ mPc = "done"
    /\ mMatchAll
    /\ Len(mRules) = 3
    /\ mRules[1].action = mRules[2].action
    /\ mRules[2].action = mRules[3].action
    /\ 1 \in mEvaluated /\ ~Succeeds(1)
    /\ Len(Val(retAll)) = 1
    /\ Val(retAll)[1].id = 2
    /\ 3 \notin mEvaluated

\* the index of the first Skip rule of mRules, 0 when there is none
FirstSkip ==
    IF \E i \in 1..Len(mRules) : mRules[i].case = ""
    THEN CHOOSE i \in 1..Len(mRules) :
            mRules[i].case = "" /\ \A j \in 1..(i - 1) : mRules[j].case # ""
    ELSE 0

\* C30: for the empty text no classifier, regular-expression test or model
\* prediction is ever invoked, matchAll returns only Skip rules, and matchOne
\* returns the first Skip rule of the list, or null when the list has none
C30_EmptyTextOnlySkip ==
    mText = "" =>
        /\ mCalls = NoCalls
        /\ IsNull(envNatural) /\ IsNull(envProgramming)
        /\ IsNull(envRegexp) /\ IsNull(envPredict)
        /\ \A k \in 1..Len(matchedRules) : matchedRules[k].case = ""
        /\ ~IsNull(retAll) => \A k \in 1..Len(Val(retAll)) : Val(retAll)[k].case = ""
        /\ ~IsNull(retOne) =>
              IF FirstSkip = 0 THEN IsNull(Val(retOne))
              ELSE /\ ~IsNull(Val(retOne))
                   /\ Val(Val(retOne)).id = FirstSkip
                   /\ Val(Val(retOne)).case = ""

\* both calls have returned on the empty text for a list whose first rule is a
\* language rule, whose second is a custom-regexp rule and whose third is a Skip
\* rule: the chains of the first two ran and the Skip rule alone is returned
C30_Witness ==
    /\ mText = ""
    /\ ~IsNull(retAll)
    /\ ~IsNull(retOne)
    /\ Len(mRules) = 3
    /\ mRules[1].case \in NaturalCases
    /\ mRules[2].case = "regexp-a"
    /\ FirstSkip = 3
    /\ mEvaluated = {1, 2, 3}
    /\ Len(Val(retAll)) = 1
    /\ Val(retAll)[1].id = 3
    /\ Val(Val(retOne)).id = 3

------------------------------------------------------------------------------
(* Further properties of the executor chain *)

\* the k-th executor is the one the action of the rule is meant for
Applicable(k, rule) ==
    CASE k = 1 -> rule.action = ""
      [] k = 2 -> StartsWith(rule.action, SCRIPT_MARK)
      [] k = 3 -> StartsWith(rule.action, PROMPT_MARK)
      [] k = 4 -> StartsWith(rule.action, SEARCHER_MARK)
      [] k = 5 -> rule.action \in BuiltinActions

\* C25: when execute has returned, the executors it invoked are the first ones of
\* the order default, script, prompt, searcher, built-in up to and including the
\* first executor applicable to the action of the rule, and none after it,
\* whatever result text that executor produced
C25_FirstApplicableOnly ==
    ~IsNull(xRet) =>
        /\ \A i \in 1..Len(xInvoked) : xInvoked[i] = i
        /\ \A k \in 1..NumExecutors :
              (Applicable(k, xRule) /\ \A j \in 1..(k - 1) : ~Applicable(j, xRule))
                  => Len(xInvoked) = k

\* the template with every placeholder replaced by its value as it is
RECURSIVE Verbatim(_)
Verbatim(text) ==
    IF text = << >> THEN << >>
    ELSE (CASE Head(text) = CLIPBOARD -> tplClipboard
            [] Head(text) = SELECTION -> tplSelection
            [] Head(text) = DATETIME -> Datetime
            [] OTHER -> <<Head(text)>>)
         \o Verbatim(Tail(text))

\* C29: renderPrompt returns the template with every occurrence of
\* {{clipboard}}, {{selection}} and {{datetime}} replaced by the clipboard, the
\* selection and the datetime of the entry, each inserted verbatim: placeholder
\* text inside a value is not expanded and the text outside the placeholders is
\* unchanged
C29_RenderVerbatim ==
    ~IsNull(tplResult) => Val(tplResult) = Verbatim(tplPrompt)

------------------------------------------------------------------------------
(* Properties of the renaming of custom cases and actions *)

\* rule r with its case (field "case") or its action (field "action") set to id
\* when it is from, and as it is otherwise
Renamed(r, field, from, id) ==
    IF field = "case"
    THEN (IF r.case = from THEN [r EXCEPT !.case = id] ELSE r)
    ELSE (IF r.action = from THEN [r EXCEPT !.action = id] ELSE r)

\* C28: a call of updateCaseId (updateActionId) sets the case (action) of every
\* rule of every shortcut that names the old id to the new id, so that no rule
\* names the old id afterwards, and changes nothing else: the other fields of the
\* rules, the rules that name another id, and the membership and the order of
\* every rule list stay as they are
C28_RenameOnlyRenames ==
    [][~IsNull(lastOp'.renamed) =>
          LET field == Val(lastOp'.renamed)[1]
              from == Val(lastOp'.renamed)[2]
              id == Val(lastOp'.renamed)[3]
          IN  \A t \in Triggers :
                /\ IsNull(shortcuts'[t]) <=> IsNull(shortcuts[t])
                /\ ~IsNull(shortcuts[t]) =>
                      /\ Len(Val(shortcuts'[t])) = Len(Val(shortcuts[t]))
                      /\ \A i \in 1..Len(Val(shortcuts[t])) :
                            /\ Val(shortcuts'[t])[i]
                                  = Renamed(Val(shortcuts[t])[i], field, from, id)
                            /\ field = "case" => Val(shortcuts'[t])[i].case # from
                            /\ field = "action" => Val(shortcuts'[t])[i].action # from]_vars

\* the stored regular expression "a" has just been renamed to "b" while both
\* rules of Ctrl+A named it: both name the new id and keep their actions
C28_Witness ==
    /\ ~IsNull(lastOp.renamed)
    /\ Val(lastOp.renamed) = <<"case", "regexp-a", "regexp-b">>
    /\ Len(RulesOf("Ctrl+A")) = 2
    /\ RulesOf("Ctrl+A")[1].case = "regexp-b"
    /\ RulesOf("Ctrl+A")[2].case = "regexp-b"
    /\ RulesOf("Ctrl+A")[1].action # RulesOf("Ctrl+A")[2].action

\* C23: once abort() has run for a chat, whether by the stop button or by a
\* show-popup or hide-popup event, no chunk of its stream is appended to the
\* response of the entry shown, and the end of its stream does not clear the
\* streaming flag of a chat started after it.
C23_AbortedStreamIsInert ==
    [][\A c \in 1..Len(popup.chats) :
          (popup.chats[c].aborted /\ popOp'.chat = c) =>
              /\ popOp'.name = "chunk" => popup'.entry = popup.entry
              /\ (popup.streaming /\ popup.client > c) => popup'.streaming]_vars

\* the prompt entries with the history flag that are waiting in a show-popup
\* event or shown in the popup
HistoryPrompts ==
    { popEvents[i] : i \in 1..Len(popEvents) }
        \cup (IF IsNull(popup.entry) THEN {} ELSE {[Val(popup.entry) EXCEPT !.response = << >>]})

\* entry e is in the history, or newer entries have pushed it out of the ring
Recorded(e) ==
    \/ \E i \in 1..Len(entries) : entries[i].id = e.id /\ entries[i].result = e.result
    \/ /\ Len(entries) = historySize
       /\ \A i \in 1..Len(entries) : entries[i].id > e.id

\* C26: the entry of a prompt rule with history is in the history from the call
\* that executes the rule on, so before its show-popup event is handled and before
\* its chat starts, and that call issues saveHistory before show_popup; no step of
\* the popup page changes the history, and abort() by the stop button leaves the
\* popup visible.
C26_HistoryAtInvocation ==
    [][/\ \A e \in HistoryPrompts' :
            (e.actionType = "prompt" /\ e.history) => Recorded(e)'
       /\ (popOp'.name = "execute" /\ xRule'.history /\ xRule'.action = "prompt-p") =>
            /\ popup' = popup
            /\ \E i, j \in (Len(xLog) + 1)..Len(xLog') :
                  /\ i < j
                  /\ xLog'[i].op = "saveHistory"
                  /\ xLog'[j].op = "show_popup"
       /\ popOp'.name # "execute" => entries' = entries
       /\ popOp'.name = "abort" => (popup'.visible = popup.visible /\ popup'.entry = popup.entry)]_vars

\* the stop button has aborted the chat of a prompt entry that is in the history,
\* with the popup visible
C26_Witness ==
    /\ popOp.name = "abort"
    /\ popup.visible
    /\ ~popup.streaming
    /\ ~IsNull(popup.entry)
    /\ Val(popup.entry).history
    /\ Val(popup.entry).actionType = "prompt"
    /\ popup.chats[popup.client].aborted
    /\ \E i \in 1..Len(entries) : entries[i].id = Val(popup.entry).id

====
